---------------------------- MODULE Spec2Model ----------------------------
(***************************************************************************)
(* SnowAngel-UAV: the measurement pipeline of webapp/backend/server.py.    *)
(*                                                                         *)
(* The store is the three PostgreSQL tables (flights, raw_measurements,    *)
(* cleaned_measurements).  The connection runs with autocommit = True, so  *)
(* every SQL statement is one atomic, immediately visible step.            *)
(* create_flight is a coroutine: between two awaits it runs alone on the   *)
(* event loop, but the plain "def" endpoints (delete_flight and the two    *)
(* GET readers) run on worker threads and interleave with its statements.  *)
(*                                                                         *)
(* Numbers.  FFT magnitudes, temperatures and coordinates are integers     *)
(* (fixed point); the uploaded values are multiples of 12 so that every    *)
(* mean the code takes over up to four values is exact.  Thickness and     *)
(* quality score are exact rationals <<num, den>>.  Floating point         *)
(* rounding is not modelled.                                               *)
(***************************************************************************)
EXTENDS Integers, Sequences, FiniteSets, TLC

(***************************************************************************)
(* Bounds of the model.                                                    *)
(***************************************************************************)
\* rows of one uploaded CSV file
MaxRows == 2
\* uploads (flight_id SERIAL values handed out)
MaxFlights == 1
\* CSV rows over all uploads together
TwoFlights == 2
MaxVec == 4
MaxTotalRows == 2

(***************************************************************************)
(* Radar constants (server.py 61-71), in integer units.                    *)
(***************************************************************************)
\* 80 kHz
SAMPLING_RATE_KHZ == 80
\* speed of light, m per microsecond
C_M_PER_US == 300
\* chirp bandwidth, MHz
BW_MHZ == 990
\* chirp duration, microseconds
T_CHIRP_US == 1600
N_FULL == 1024
N == 512

\* None of Python, NULL of SQL for a thickness / quality score / rational
None == <<>>
\* NULL of the integer column raw_measurements.cleaned_id (SERIAL ids start at 1)
NULL == 0

(***************************************************************************)
(* Helpers: sets, sequences, exact rationals.                              *)
(***************************************************************************)
Range(s) == {s[i] : i \in DOMAIN s}

SetMax(S) == CHOOSE m \in S : \A y \in S : y <= m

SetMin(S) == CHOOSE m \in S : \A y \in S : m <= y

RECURSIVE SeqSum(_)
SeqSum(s) == IF s = <<>> THEN 0 ELSE Head(s) + SeqSum(Tail(s))

\* the elements of set S of integers as an ascending sequence (np.sort)
RECURSIVE SortedSeq(_)
SortedSeq(S) == IF S = {} THEN <<>> ELSE <<SetMin(S)>> \o SortedSeq(S \ {SetMin(S)})

\* s[:n]
Take(s, n) == SubSeq(s, 1, IF Len(s) < n THEN Len(s) ELSE n)

Abs(a) == IF a < 0 THEN -a ELSE a

RECURSIVE Gcd(_, _)
Gcd(a, b) == IF b = 0 THEN a ELSE Gcd(b, a % b)

\* the rational n/d (d /= 0) in lowest terms with a positive denominator
Rat(n, d) ==
    LET g == Gcd(Abs(n), Abs(d))
        s == IF d < 0 THEN -1 ELSE 1
    IN  <<(s * n) \div g, (s * d) \div g>>

RatAdd(p, q) == Rat(p[1] * q[2] + q[1] * p[2], p[2] * q[2])

RatDivInt(p, k) == Rat(p[1], p[2] * k)

RatLeq(p, q) == p[1] * q[2] <= q[1] * p[2]

RatMin(p, q) == IF RatLeq(p, q) THEN p ELSE q

RECURSIVE RatSum(_)
RatSum(s) == IF s = <<>> THEN Rat(0, 1) ELSE RatAdd(Head(s), RatSum(Tail(s)))

(***************************************************************************)
(* RANGE_AXIS (server.py 65-71): RANGE_AXIS[i] = i * BIN_SPACING * HZ_TO_M *)
(*   = i * (SAMPLING_RATE / N_FULL) * C * T_CHIRP / (2 * BW)  metres.      *)
(***************************************************************************)
\* metres per bin, exact: 5/264 m
BIN_RANGE == Rat(SAMPLING_RATE_KHZ * T_CHIRP_US * C_M_PER_US, N_FULL * 2 * BW_MHZ * 1000)

\* RANGE_AXIS[i] for bin i (0-based) as a rational number of metres
RANGE_AXIS(i) == Rat(i * BIN_RANGE[1], BIN_RANGE[2])

(***************************************************************************)
(* scipy.signal.find_peaks(x, distance, prominence) as server.py calls it. *)
(* x is a 1-based sequence here; positions are 1-based positions of x.     *)
(***************************************************************************)
\* _local_maxima_1d: a sample (or the middle, rounded down, of a flat run) that is
\* strictly higher than the samples on both sides; never the first or last sample
LocalMaxima(x) ==
    LET n == Len(x)
        \* the last position of the flat run that starts at l
        ahead(l) == SetMin({n} \cup {j \in l..(n - 1) : x[j + 1] # x[l]})
    IN  { (l + ahead(l)) \div 2 : l \in
            { l \in 2..(n - 1) :
                /\ x[l - 1] < x[l]
                /\ ahead(l) < n
                /\ x[ahead(l) + 1] < x[l] } }

\* _select_by_peak_distance: peaks are visited from the highest down (of equal
\* heights the later one first); a visited peak that is still kept removes every
\* other peak closer than ceil(distance) samples
RECURSIVE SelectByDistance(_, _, _, _)
SelectByDistance(x, todo, keep, dist) ==
    IF todo = {} THEN keep
    ELSE LET top == CHOOSE p \in todo :
                        \A q \in todo : x[q] < x[p] \/ (x[q] = x[p] /\ q <= p)
         IN  IF top \notin keep
             THEN SelectByDistance(x, todo \ {top}, keep, dist)
             ELSE SelectByDistance(x, todo \ {top},
                      {q \in keep : q = top \/ Abs(q - top) >= dist}, dist)

\* _peak_prominences without wlen: walk left and right from the peak while the
\* samples are not higher than it, keeping the lowest sample met on each side
Prominence(x, p) ==
    LET lstop == SetMax({0} \cup {j \in 1..p : x[j] > x[p]})
        rstop == SetMin({Len(x) + 1} \cup {j \in p..Len(x) : x[j] > x[p]})
        left_min == SetMin({x[j] : j \in (lstop + 1)..p})
        right_min == SetMin({x[j] : j \in p..(rstop - 1)})
    IN  x[p] - (IF left_min > right_min THEN left_min ELSE right_min)

\* find_peaks(x, distance = dist, prominence = pnum/pden * pmax): the set of kept
\* positions; the filters run in scipy's order, distance before prominence
find_peaks(x, dist, pnum, pden, pmax) ==
    LET spaced == SelectByDistance(x, LocalMaxima(x), LocalMaxima(x), dist)
    IN  {p \in spaced : pden * Prominence(x, p) >= pnum * pmax}

(***************************************************************************)
(* _process_fft_to_thickness (server.py 760-823).  fft_data is the list of *)
(* magnitudes, 1-based here: bin i is fft_data[i + 1].  The result is      *)
(* [exc, thickness, quality_score]; exc = "IndexError" is the exception    *)
(* numpy raises at fft_array[valid_indices] when the list is too short.    *)
(***************************************************************************)
\* np.where((RANGE_AXIS > 0.1) & (RANGE_AXIS < 1))[0]: bins 6..52
valid_indices ==
    SortedSeq({i \in 0..(N - 1) :
        /\ ~RatLeq(RANGE_AXIS(i), Rat(1, 10))
        /\ ~RatLeq(Rat(1, 1), RANGE_AXIS(i))})

NoEstimate == [exc |-> "", thickness |-> None, quality_score |-> None]

\* lines 809-823: the two peak ranges and magnitudes to the estimate
PeakPairEstimate(r1, r2, magnitude1, magnitude2) ==
    LET ice_thickness_m == RatAdd(r2, Rat(-r1[1], r1[2]))
        ratio == IF magnitude2 > 0 THEN Rat(magnitude1, magnitude2) ELSE Rat(1, 1)
    IN  IF magnitude1 <= magnitude2 THEN NoEstimate
        ELSE [exc |-> "",
              thickness |-> Rat(ice_thickness_m[1] * 100, ice_thickness_m[2]),
              quality_score |-> RatMin(RatDivInt(ratio, 10), Rat(1, 1))]

\* lines 799-807: peaks is the sorted list of the first two peak bins
PeaksEstimate(fft_data, peaks) ==
    IF Len(peaks) < 2 THEN NoEstimate
    ELSE PeakPairEstimate(RANGE_AXIS(peaks[1]), RANGE_AXIS(peaks[2]),
                          fft_data[peaks[1] + 1], fft_data[peaks[2] + 1])

\* a peak search whose prominence threshold is a fixed magnitude
WindowPeaksFixedThreshold(fft_data) ==
    LET window == [k \in 1..Len(valid_indices) |-> fft_data[valid_indices[k] + 1]]
        found == find_peaks(window, 2, 5, 1, 1)
    IN  Take(SortedSeq({valid_indices[k] : k \in found}), 2)

\* lines 783-797: fft_array[valid_indices], find_peaks on it, the peak bins
WindowPeaks(fft_data) ==
    LET window == [k \in 1..Len(valid_indices) |-> fft_data[valid_indices[k] + 1]]
        found == find_peaks(window, 2, 3, 1000, SetMax(Range(fft_data)))
    IN  Take(SortedSeq({valid_indices[k] : k \in found}), 2)

_process_fft_to_thickness(fft_data) ==
    IF Len(fft_data) = 0 THEN NoEstimate
    ELSE IF Len(valid_indices) = 0 THEN NoEstimate
    ELSE IF \E k \in DOMAIN valid_indices : valid_indices[k] + 1 > Len(fft_data)
    THEN [exc |-> "IndexError", thickness |-> None, quality_score |-> None]
    ELSE PeaksEstimate(fft_data, WindowPeaks(fft_data))

(***************************************************************************)
(* ThicknessAnalyzer.refine_peak_parabolic_log (thickness_analyzer.py      *)
(* 94-107).  fft_data is the magnitude array, 1-based here; k is the       *)
(* 0-based index the code uses.  Logarithms are taken to base 2, which     *)
(* leaves delta, a ratio of differences of logarithms, as it is, and in    *)
(* tenths of log 2.  The magnitudes are 0, 2^e and 3 * 2^e: np.log(x +     *)
(* 1e-12) is 10 e for x = 2^e and 10 e + 16 for x = 3 * 2^e (10 log2(3) =  *)
(* 15.85; the 1e-12 adds less than 2e-11), and -399 for x = 0 (10          *)
(* log2(1e-12) = -398.6).  np.log rounds its result to the precision of a  *)
(* float64, so that two magnitudes one unit in the last place apart can    *)
(* have the same logarithm; here the precision is the tenth, and 2^e + 1   *)
(* has the logarithm of 2^e for e >= 5 (10 log2(33) = 50.44).              *)
(***************************************************************************)
\* 10 log2(x) to the nearest integer for x = 2^e, 3 * 2^e, or 2^e + 1 with e >= 5
\* (an odd x above 3 is taken as x - 1)
RECURSIVE Log2(_)
Log2(x) ==
    IF x <= 1 THEN 0
    ELSE IF x = 3 THEN 16
    ELSE IF x % 2 = 0 THEN 10 + Log2(x \div 2)
    ELSE Log2(x - 1)

\* np.log(x + 1e-12) in tenths of log 2
LogEps(x) == IF x = 0 THEN -399 ELSE Log2(x)

\* numpy's fft_data[i]: [ok, v].  A negative i counts from the end; an i outside
\* -len..len-1 raises IndexError (ok = FALSE)
ReadAt(fft_data, i) ==
    IF i >= 0 /\ i < Len(fft_data) THEN [ok |-> TRUE, v |-> fft_data[i + 1]]
    ELSE IF i < 0 /\ -i <= Len(fft_data)
    THEN [ok |-> TRUE, v |-> fft_data[Len(fft_data) + i + 1]]
    ELSE [ok |-> FALSE, v |-> 0]

\* a refinement whose delta lacks the factor 0.5
RefineFromReadsUnhalved(k, a, b, c) ==
    LET y1 == LogEps(a.v)
        y2 == LogEps(b.v)
        y3 == LogEps(c.v)
        denom == y1 - 2 * y2 + y3
    IN  IF ~(a.ok /\ b.ok /\ c.ok)
        THEN [exc |-> "IndexError", value |-> None, reads |-> {k - 1, k, k + 1}]
        ELSE [exc |-> "",
              value |-> IF denom = 0 THEN Rat(k, 1)
                        ELSE Rat(k * denom + (y1 - y3), denom),
              reads |-> {k - 1, k, k + 1}]

\* lines 98-107, a, b, c being what fft_data[k - 1], fft_data[k], fft_data[k + 1]
\* gave: [exc, value, reads], value the rational returned and reads the indices
\* the call read
RefineFromReads(k, a, b, c) ==
    LET y1 == LogEps(a.v)
        y2 == LogEps(b.v)
        y3 == LogEps(c.v)
        denom == y1 - 2 * y2 + y3
    IN  IF ~(a.ok /\ b.ok /\ c.ok)
        THEN [exc |-> "IndexError", value |-> None, reads |-> {k - 1, k, k + 1}]
        ELSE [exc |-> "",
              value |-> IF denom = 0 THEN Rat(k, 1)
                        ELSE Rat(2 * k * denom + (y1 - y3), 2 * denom),
              reads |-> {k - 1, k, k + 1}]

\* a refinement that guards the ends one index too late
RefineLateGuard(fft_data, k) ==
    IF k < 0 \/ k > Len(fft_data) - 1
    THEN [exc |-> "", value |-> Rat(k, 1), reads |-> {}]
    ELSE RefineFromReads(k, ReadAt(fft_data, k - 1), ReadAt(fft_data, k),
                         ReadAt(fft_data, k + 1))

\* a refinement whose offset is measured from the peak to its right neighbour
RefineSkewed(fft_data, k) ==
    IF k <= 0 \/ k >= Len(fft_data) - 1
    THEN [exc |-> "", value |-> Rat(k, 1), reads |-> {}]
    ELSE RefineFromReads(k, ReadAt(fft_data, k), ReadAt(fft_data, k),
                         ReadAt(fft_data, k + 1))

refine_peak_parabolic_log(fft_data, k) ==
    IF k <= 0 \/ k >= Len(fft_data) - 1
    THEN [exc |-> "", value |-> Rat(k, 1), reads |-> {}]
    ELSE RefineFromReads(k, ReadAt(fft_data, k - 1), ReadAt(fft_data, k),
                         ReadAt(fft_data, k + 1))

(***************************************************************************)
(* ThicknessAnalyzer.analyze_fft (thickness_analyzer.py 110-227).          *)
(* find_peaks is called with height, distance, prominence, width and wlen; *)
(* scipy filters in the order height, distance, prominence, width.         *)
(* Positions are 1-based positions of x until the bins are taken.          *)
(***************************************************************************)
\* p / q < a / b for p, a >= 0 and q, b > 0, without a product
RECURSIVE FracLess(_, _, _, _)
FracLess(p, q, a, b) ==
    IF p \div q # a \div b THEN p \div q < a \div b
    ELSE IF a % b = 0 THEN FALSE
    ELSE IF p % q = 0 THEN TRUE
    ELSE FracLess(b, a % b, q, p % q)

\* height = 0.02 * np.max(fft_data): the peaks at least that high
HeightFiltered(x, pmax) == {p \in LocalMaxima(x) : 100 * x[p] >= 2 * pmax}

\* _peak_prominences with wlen: the walk from the peak stops at a higher sample
\* or half samples away; each base is the lowest sample met, the nearest of
\* equal ones
ProminenceData(x, p, half) ==
    LET i_min == IF p - half < 1 THEN 1 ELSE p - half
        i_max == IF p + half > Len(x) THEN Len(x) ELSE p + half
        lstop == SetMax({i_min - 1} \cup {j \in i_min..p : x[j] > x[p]})
        rstop == SetMin({i_max + 1} \cup {j \in p..i_max : x[j] > x[p]})
        left_min == SetMin({x[j] : j \in (lstop + 1)..p})
        right_min == SetMin({x[j] : j \in p..(rstop - 1)})
    IN  [prominence |-> x[p] - (IF left_min > right_min THEN left_min ELSE right_min),
         left_base |-> SetMax({j \in (lstop + 1)..p : x[j] = left_min}),
         right_base |-> SetMin({j \in p..(rstop - 1) : x[j] = right_min})]

\* _peak_widths at rel_height 0.5: h2 is twice the evaluation height, li and ri
\* the samples where the walks from the peak stop; the crossing points are
\* interpolated and the width is their distance, a rational
WidthBetween(x, h2, li, ri) ==
    LET left_ip == IF 2 * x[li] < h2
                   THEN RatAdd(Rat(li, 1), Rat(h2 - 2 * x[li], 2 * (x[li + 1] - x[li])))
                   ELSE Rat(li, 1)
        right_ip == IF 2 * x[ri] < h2
                    THEN RatAdd(Rat(ri, 1), Rat(2 * x[ri] - h2, 2 * (x[ri - 1] - x[ri])))
                    ELSE Rat(ri, 1)
    IN  RatAdd(right_ip, Rat(-left_ip[1], left_ip[2]))

PeakWidth(x, p, pd) ==
    WidthBetween(x, 2 * x[p] - pd.prominence,
        SetMax({pd.left_base} \cup {j \in (pd.left_base + 1)..p :
                                       2 * x[j] <= 2 * x[p] - pd.prominence}),
        SetMin({pd.right_base} \cup {j \in p..(pd.right_base - 1) :
                                        2 * x[j] <= 2 * x[p] - pd.prominence}))

\* prominence = 0.05 * np.max(fft_data) and width = 3
ProminentAndWide(x, p, pd, pmax) ==
    /\ 100 * pd.prominence >= 5 * pmax
    /\ RatLeq(Rat(3, 1), PeakWidth(x, p, pd))

\* lines 134-141: distance = 30 / 1.89 is 16 samples, wlen = 80 is 40 samples on
\* each side; candidates are the peaks the height filter left
AnalyzerFindPeaks(x, candidates, pmax) ==
    {p \in SelectByDistance(x, candidates, candidates, 16) :
        ProminentAndWide(x, p, ProminenceData(x, p, 40), pmax)}

\* lines 155-157: the bins of the peaks inside [min_range, max_range], sorted
WindowFiltered(found, min_range, max_range) ==
    SortedSeq({b \in {p - 1 : p \in found} :
        /\ RatLeq(min_range, RANGE_AXIS(b))
        /\ RatLeq(RANGE_AXIS(b), max_range)})

NoAnalysis(error, peaks) == [error |-> error, peaks |-> peaks, thickness |-> None]

\* lines 191-209: refined1 and refined2 are the refined peak positions.  r2 - r1
\* = (refined2 - refined1) * bin_width, so thickness * 100 = d * 500 / (264 *
\* 1.78) = d * 625 / 587.4 for d = |refined2 - refined1|; the thickness is
\* kept as d, in units of bin_width / n
ThicknessFromRefined(peaks, refined1, refined2) ==
    LET diff == RatAdd(refined2, Rat(-refined1[1], refined1[2]))
        d == Rat(Abs(diff[1]), diff[2])
    IN  IF FracLess(d[1], d[2], 17622, 625) \/ FracLess(29370, 625, d[1], d[2])
        THEN NoAnalysis("Unrealistic thickness calculated", peaks)
        ELSE [error |-> "", peaks |-> peaks, thickness |-> d]

\* an analysis without the rule on the range of the first peak
AnalyzePeaksAnyStandoff(fft_data, peaks) ==
    IF Len(peaks) >= 2 /\ fft_data[peaks[2] + 1] > fft_data[peaks[1] + 1]
    THEN NoAnalysis("Second peak stronger than first peak; invalid measurement", peaks)
    ELSE IF Len(peaks) >= 2
    THEN ThicknessFromRefined(peaks,
             refine_peak_parabolic_log(fft_data, peaks[1]).value,
             refine_peak_parabolic_log(fft_data, peaks[2]).value)
    ELSE IF Len(peaks) = 1 THEN NoAnalysis("Only one peak found", peaks)
    ELSE NoAnalysis("No peaks found in FFT data", peaks)

\* lines 159-225: the rules in the order of the code, peaks being the sorted
\* bins inside the window
AnalyzePeaks(fft_data, peaks) ==
    IF Len(peaks) >= 2 /\ fft_data[peaks[2] + 1] > fft_data[peaks[1] + 1]
    THEN NoAnalysis("Second peak stronger than first peak; invalid measurement", peaks)
    ELSE IF Len(peaks) >= 1 /\ ~RatLeq(RANGE_AXIS(peaks[1]), Rat(13, 10))
    THEN NoAnalysis("First peak beyond 130cm; invalid measurement", peaks)
    ELSE IF Len(peaks) >= 2
    THEN ThicknessFromRefined(peaks,
             refine_peak_parabolic_log(fft_data, peaks[1]).value,
             refine_peak_parabolic_log(fft_data, peaks[2]).value)
    ELSE IF Len(peaks) = 1 THEN NoAnalysis("Only one peak found", peaks)
    ELSE NoAnalysis("No peaks found in FFT data", peaks)

\* analyze_fft(fft_data) with the default window, 0.35 m to 2.0 m:
\* [error, peaks, thickness]
analyze_fft(fft_data) ==
    AnalyzePeaks(fft_data,
        WindowFiltered(
            AnalyzerFindPeaks(fft_data,
                HeightFiltered(fft_data, SetMax(Range(fft_data))),
                SetMax(Range(fft_data))),
            Rat(35, 100), Rat(2, 1)))

(***************************************************************************)
(* _analyze_fft of temp_server.py (201-230): a peak search written as one  *)
(* left-to-right sweep.  Bins are 0-based, fft_data 1-based.               *)
(***************************************************************************)
\* line 202: the bins with min_range <= RANGE_AXIS <= max_range, for the default
\* window 0.05 m to 2.0 m
TempValidIndices ==
    SortedSeq({i \in 0..(N - 1) :
        /\ RatLeq(Rat(5, 100), RANGE_AXIS(i))
        /\ RatLeq(RANGE_AXIS(i), Rat(2, 1))})

\* lines 215-224: bin idx is a strict local maximum, at least min_height =
\* 0.01 * gmax high, with a prominence over the window first..last of at least
\* peak_prominence = 0.003 * vmax
TempCandidate(fft_data, idx, first, last, vmax, gmax) ==
    /\ fft_data[idx + 1] > fft_data[idx]
    /\ fft_data[idx + 1] > fft_data[idx + 2]
    /\ 100 * fft_data[idx + 1] >= gmax
    /\ LET left_min == SetMin({fft_data[j + 1] : j \in first..idx})
           right_min == SetMin({fft_data[j + 1] : j \in idx..last})
       IN  1000 * (fft_data[idx + 1] - (IF left_min > right_min THEN left_min
                                                                ELSE right_min))
               >= 3 * vmax

\* lines 214-229: the sweep over the candidate bins in ascending order; a
\* candidate less than 2 bins after the last peak kept is skipped
RECURSIVE TempSweep(_, _, _)
TempSweep(candidates, last_peak, peaks) ==
    IF candidates = <<>> THEN peaks
    ELSE IF Head(candidates) - last_peak < 2
    THEN TempSweep(Tail(candidates), last_peak, peaks)
    ELSE TempSweep(Tail(candidates), Head(candidates), Append(peaks, Head(candidates)))

\* the candidates of the sweep, ascending
TempCandidates(fft_data, valid, vmax, gmax) ==
    SortedSeq({valid[k] : k \in {h \in 2..(Len(valid) - 1) :
        TempCandidate(fft_data, valid[h], valid[1], valid[Len(valid)], vmax, gmax)}})

\* lines 232-238: [exc, peaks, thickness], the thickness in cm
TempThickness(peaks) ==
    IF Len(peaks) < 2 THEN [exc |-> "", peaks |-> peaks, thickness |-> None]
    ELSE LET d == RatAdd(RANGE_AXIS(peaks[2]),
                         Rat(-RANGE_AXIS(peaks[1])[1], RANGE_AXIS(peaks[1])[2]))
         IN  [exc |-> "", peaks |-> peaks, thickness |-> Rat(Abs(d[1]) * 100, d[2])]

\* a list shorter than the window raises IndexError at line 206
_analyze_fft(fft_data) ==
    IF Len(TempValidIndices) = 0 THEN [exc |-> "", peaks |-> <<>>, thickness |-> None]
    ELSE IF Len(fft_data) < TempValidIndices[Len(TempValidIndices)] + 1
    THEN [exc |-> "IndexError", peaks |-> <<>>, thickness |-> None]
    ELSE TempThickness(
             TempSweep(
                 TempCandidates(fft_data, TempValidIndices,
                     SetMax({fft_data[TempValidIndices[k] + 1] :
                                k \in DOMAIN TempValidIndices}),
                     SetMax(Range(fft_data))),
                 -999, <<>>))

(***************************************************************************)
(* FFT vectors in the state.  A vector is kept as [n, nz]: its length and  *)
(* its non-zero elements by 1-based position.  Dense gives back the list   *)
(* the code works on; Sparse(Dense(v)) = v.                                *)
(***************************************************************************)
Sparse(list) ==
    [n |-> Len(list),
     nz |-> [i \in {j \in 1..Len(list) : list[j] # 0} |-> list[i]]]

Dense(v) == [i \in 1..v.n |-> IF i \in DOMAIN v.nz THEN v.nz[i] ELSE 0]

(***************************************************************************)
(* CSV text.  A field is [k, v]: k = "num" is the text of the number v     *)
(* (float() accepts it, blanks around it or not), k = "time" the text of   *)
(* the timestamp v in the form %Y-%m-%d %H:%M:%S, k = "blank" an empty or  *)
(* all-blank field, k = "junk" any other text.  A row is a sequence of     *)
(* fields, as csv.reader yields it.                                        *)
(***************************************************************************)
Num(v) == [k |-> "num", v |-> v]

Time(v) == [k |-> "time", v |-> v]

Blank == [k |-> "blank", v |-> 0]

Junk == [k |-> "junk", v |-> 0]

\* float(field.strip()) succeeds
FloatOk(field) == field.k = "num"

\* datetime.strptime(field.strip(), "%Y-%m-%d %H:%M:%S") succeeds
StrptimeOk(field) == field.k = "time"

(***************************************************************************)
(* _parse_csv_row (server.py 659-712): [exc, m].  exc = "ValueError" for a *)
(* row the caller skips.  created_at (the clock) is not modelled.          *)
(***************************************************************************)
\* lines 696-703: blank FFT fields are skipped, unparsable ones dropped
ParseFft(fields) ==
    LET kept == SelectSeq(fields, LAMBDA f : f.k # "blank" /\ FloatOk(f))
    IN  [i \in 1..Len(kept) |-> kept[i].v]

NoMeasurement ==
    [flight_id |-> 0, timestamp |-> 0, coordinates |-> <<0, 0>>, temperature |-> 0,
     fft_data |-> Sparse(<<>>), _raw_measurement_id |-> NULL,
     thickness |-> None, quality_score |-> None, _source_raw_ids |-> <<>>]

_parse_csv_row(row, flight_id) ==
    IF Len(row) < 4 THEN [exc |-> "ValueError", m |-> NoMeasurement]
    ELSE IF ~StrptimeOk(row[1]) THEN [exc |-> "ValueError", m |-> NoMeasurement]
    ELSE IF ~FloatOk(row[2]) \/ ~FloatOk(row[3]) THEN [exc |-> "ValueError", m |-> NoMeasurement]
    ELSE IF ~FloatOk(row[4]) THEN [exc |-> "ValueError", m |-> NoMeasurement]
    ELSE [exc |-> "",
          m |-> [NoMeasurement EXCEPT
                   !.flight_id = flight_id,
                   !.timestamp = row[1].v,
                   !.coordinates = <<row[2].v, row[3].v>>,
                   !.temperature = row[4].v,
                   !.fft_data = Sparse(ParseFft(SubSeq(row, 5, Len(row))))]]

\* a reader loop that gives up at the first row that raises ValueError
RECURSIVE ParseRowsAbort(_, _)
ParseRowsAbort(rows, flight_id) ==
    IF rows = <<>> THEN <<>>
    ELSE IF Head(rows) = <<>> THEN ParseRowsAbort(Tail(rows), flight_id)
    ELSE IF _parse_csv_row(Head(rows), flight_id).exc = "ValueError" THEN <<>>
    ELSE <<_parse_csv_row(Head(rows), flight_id).m>> \o ParseRowsAbort(Tail(rows), flight_id)

\* the reader loop of process_and_clean_csv (server.py 960-972): empty rows are
\* skipped, a row that raises ValueError is skipped, the others are appended
RECURSIVE ParseRows(_, _)
ParseRows(rows, flight_id) ==
    IF rows = <<>> THEN <<>>
    ELSE IF Head(rows) = <<>> THEN ParseRows(Tail(rows), flight_id)
    ELSE IF _parse_csv_row(Head(rows), flight_id).exc = "ValueError"
    THEN ParseRows(Tail(rows), flight_id)
    ELSE <<_parse_csv_row(Head(rows), flight_id).m>> \o ParseRows(Tail(rows), flight_id)

(***************************************************************************)
(* _process_and_validate_measurements (server.py 826-858): [exc, out].     *)
(* An IndexError of the estimator is not caught and ends the loop.         *)
(***************************************************************************)
\* a loop body that keeps a measurement whatever its estimate is
ValidateStepKeepAll(measurement, r, rest) ==
    IF r.exc # "" THEN [exc |-> r.exc, out |-> <<>>]
    ELSE IF rest.exc # "" THEN rest
    ELSE [exc |-> "",
          out |-> <<[measurement EXCEPT !.thickness = r.thickness,
                                        !.quality_score = r.quality_score]>>
                      \o rest.out]

\* lines 842-853, the body of the loop: r is the estimate of this measurement,
\* rest the result of the iterations after it
ValidateStep(measurement, r, rest) ==
    IF r.exc # "" THEN [exc |-> r.exc, out |-> <<>>]
    ELSE IF rest.exc # "" THEN rest
    ELSE IF r.thickness # None /\ r.quality_score # None
    THEN [exc |-> "",
          out |-> <<[measurement EXCEPT !.thickness = r.thickness,
                                        !.quality_score = r.quality_score]>>
                      \o rest.out]
    ELSE rest

RECURSIVE _process_and_validate_measurements(_)
_process_and_validate_measurements(measurements) ==
    IF measurements = <<>> THEN [exc |-> "", out |-> <<>>]
    ELSE ValidateStep(Head(measurements),
                      _process_fft_to_thickness(Dense(Head(measurements).fft_data)),
                      _process_and_validate_measurements(Tail(measurements)))

(***************************************************************************)
(* _combine_measurements (server.py 425-505) for two or more measurements: *)
(* [exc, out], out = <<>> for the None it returns when neither the merged  *)
(* FFT nor the members give a thickness, else <<combined_measurement>>.     *)
(***************************************************************************)
\* a combined FFT in which every array counts at every index, a missing element
\* as zero
combined_fft_padded(fft_arrays) ==
    LET max_length == SetMax({Len(fft_arrays[a]) : a \in DOMAIN fft_arrays})
    IN  [idx \in 1..max_length |->
            SeqSum([a \in DOMAIN fft_arrays |->
                       IF idx <= Len(fft_arrays[a]) THEN fft_arrays[a][idx] ELSE 0])
                \div Len(fft_arrays)]

\* lines 450-467: per index, the mean over the arrays that have that index
combined_fft(fft_arrays) ==
    LET max_length == SetMax({Len(fft_arrays[a]) : a \in DOMAIN fft_arrays})
    IN  [idx \in 1..max_length |->
            LET values_at_idx ==
                    SelectSeq([a \in DOMAIN fft_arrays |->
                                  IF idx <= Len(fft_arrays[a])
                                  THEN <<fft_arrays[a][idx]>> ELSE <<>>],
                              LAMBDA e : e # <<>>)
            IN  SeqSum([j \in DOMAIN values_at_idx |-> values_at_idx[j][1]])
                    \div Len(values_at_idx)]

\* lines 441-448 and 469-505: merged is the combined FFT, r its estimate
CombinedMeasurement(measurements, merged, r) ==
    LET n == Len(measurements)
        avg_lon == SeqSum([j \in 1..n |-> measurements[j].coordinates[1]]) \div n
        avg_lat == SeqSum([j \in 1..n |-> measurements[j].coordinates[2]]) \div n
        avg_temp == SeqSum([j \in 1..n |-> measurements[j].temperature]) \div n
        earliest_timestamp == SetMin({measurements[j].timestamp : j \in 1..n})
        thicknesses == SelectSeq([j \in 1..n |-> measurements[j].thickness],
                                 LAMBDA t : t # None)
        quality_scores == SelectSeq([j \in 1..n |-> measurements[j].quality_score],
                                    LAMBDA q : q # None)
        fallback == r.thickness = None \/ r.quality_score = None
    IN  IF r.exc # "" THEN [exc |-> r.exc, out |-> <<>>]
        ELSE IF fallback /\ (thicknesses = <<>> \/ quality_scores = <<>>)
        THEN [exc |-> "", out |-> <<>>]
        ELSE [exc |-> "",
              out |-> <<[NoMeasurement EXCEPT
                   !.flight_id = measurements[1].flight_id,
                   !.timestamp = earliest_timestamp,
                   !.coordinates = <<avg_lon, avg_lat>>,
                   !.temperature = avg_temp,
                   !.fft_data = Sparse(merged),
                   !.thickness = IF fallback
                                 THEN RatDivInt(RatSum(thicknesses), Len(thicknesses))
                                 ELSE r.thickness,
                   !.quality_score = IF fallback
                                     THEN RatDivInt(RatSum(quality_scores), Len(quality_scores))
                                     ELSE r.quality_score]>>]

\* a _combine_measurements that never runs the estimator on the combined FFT
EstimateCombinedSkipped(measurements, merged) ==
    CombinedMeasurement(measurements, merged, NoEstimate)

\* line 477: the estimate of the combined FFT
EstimateCombined(measurements, merged) ==
    CombinedMeasurement(measurements, merged, _process_fft_to_thickness(merged))

_combine_measurements(measurements) ==
    EstimateCombined(measurements,
        combined_fft([j \in 1..Len(measurements) |-> Dense(measurements[j].fft_data)]))

(***************************************************************************)
(* _combine_same_coordinates (server.py 508-578): [exc, out].  The groups  *)
(* are the values of a dict keyed by (longitude, latitude), visited in the *)
(* order in which their keys were first inserted.                          *)
(***************************************************************************)
\* lines 525-533: the keys of coord_groups in insertion order
RECURSIVE CoordKeys(_, _)
CoordKeys(measurements, seen) ==
    IF measurements = <<>> THEN <<>>
    ELSE IF Head(measurements).coordinates \in seen
    THEN CoordKeys(Tail(measurements), seen)
    ELSE <<Head(measurements).coordinates>>
             \o CoordKeys(Tail(measurements), seen \cup {Head(measurements).coordinates})

\* a group that holds only the first measurement of its coordinate
CoordGroupFirst(measurements, coord_key) ==
    Take(SelectSeq(measurements, LAMBDA m : m.coordinates = coord_key), 1)

\* a group keyed by longitude alone
CoordGroupByLongitude(measurements, coord_key) ==
    SelectSeq(measurements, LAMBDA m : m.coordinates[1] = coord_key[1])

\* coord_groups[coord_key]
CoordGroup(measurements, coord_key) ==
    SelectSeq(measurements, LAMBDA m : m.coordinates = coord_key)

\* a result that lists only the first member of the group
GroupCombinedFirstId(group, c) ==
    IF c.exc # "" THEN c
    ELSE IF c.out # <<>>
    THEN [exc |-> "",
          out |-> <<[c.out[1] EXCEPT !._source_raw_ids =
                        <<group[1]._raw_measurement_id>>]>>]
    ELSE [exc |-> "", out |-> <<>>]

\* lines 556-569: c is what _combine_measurements returned for the group
GroupCombined(group, c) ==
    IF c.exc # "" THEN c
    ELSE IF c.out # <<>>
    THEN [exc |-> "",
          out |-> <<[c.out[1] EXCEPT !._source_raw_ids =
                        SelectSeq([j \in DOMAIN group |-> group[j]._raw_measurement_id],
                                  LAMBDA id : id # NULL)]>>]
    ELSE [exc |-> "", out |-> <<>>]

\* a loop body that builds the result of a group of one anew, without the
\* thickness and quality score validation gave the record
CombineGroupLosesEstimate(group) ==
    IF Len(group) = 1
    THEN [exc |-> "",
          out |-> <<[group[1] EXCEPT !.thickness = None, !.quality_score = None,
                                     !._source_raw_ids =
                                         <<group[1]._raw_measurement_id>>]>>]
    ELSE GroupCombined(group, _combine_measurements(group))

\* a loop body that forgets the provenance of a group of one
CombineGroupNoProvenance(group) ==
    IF Len(group) = 1
    THEN [exc |-> "", out |-> <<[group[1] EXCEPT !._source_raw_ids = <<>>]>>]
    ELSE GroupCombined(group, _combine_measurements(group))

\* lines 541-569, the body of the loop for one group: [exc, out], out is the list
\* of zero or one cleaned candidates the group adds to combined
CombineGroup(group) ==
    IF Len(group) = 1
    THEN [exc |-> "",
          out |-> <<[group[1] EXCEPT !._source_raw_ids =
                        IF group[1]._raw_measurement_id # NULL
                        THEN <<group[1]._raw_measurement_id>> ELSE <<>>]>>]
    ELSE GroupCombined(group, _combine_measurements(group))

\* combined.append / the exception leaving the loop
AppendGroup(g, rest) ==
    IF g.exc # "" THEN g
    ELSE IF rest.exc # "" THEN rest
    ELSE [exc |-> "", out |-> g.out \o rest.out]

RECURSIVE CombineGroups(_, _)
CombineGroups(measurements, keys) ==
    IF keys = <<>> THEN [exc |-> "", out |-> <<>>]
    ELSE AppendGroup(CombineGroup(CoordGroup(measurements, Head(keys))),
                     CombineGroups(measurements, Tail(keys)))

\* a reconciliation that visits the group of every record, not of every key
CombineSameCoordinatesPerRecord(measurements) ==
    IF measurements = <<>> THEN [exc |-> "", out |-> <<>>]
    ELSE CombineGroups(measurements,
                       [j \in DOMAIN measurements |-> measurements[j].coordinates])

_combine_same_coordinates(measurements) ==
    IF measurements = <<>> THEN [exc |-> "", out |-> <<>>]
    ELSE CombineGroups(measurements, CoordKeys(measurements, {}))

(***************************************************************************)
(* The tables (ensure_tables, server.py 108-193) and the statements run on *)
(* them.  A table is a function from primary key to row.  The columns      *)
(* date, location, notes, created_at and processed_at are not modelled.    *)
(***************************************************************************)
\* INSERT INTO raw_measurements ... RETURNING measurement_id (server.py 746-755)
InsertRawRow(tab, id, m) ==
    tab @@ (id :> [flight_id |-> m.flight_id, timestamp |-> m.timestamp,
                   coordinates |-> m.coordinates, temperature |-> m.temperature,
                   fft_data |-> m.fft_data, cleaned_id |-> NULL])

\* an INSERT that returns an id and stores no row
InsertCleanedRowNowhere(tab, id, m) == tab

\* INSERT INTO cleaned_measurements ... RETURNING cleaned_id (server.py 894-903)
InsertCleanedRow(tab, id, m) ==
    tab @@ (id :> [flight_id |-> m.flight_id, timestamp |-> m.timestamp,
                   coordinates |-> m.coordinates, temperature |-> m.temperature,
                   thickness |-> m.thickness, quality_score |-> m.quality_score])

\* an UPDATE that reaches only the first of the ids
UpdateFirstRawOnly(tab, raw_measurement_ids, cleaned_id) ==
    IF raw_measurement_ids = <<>> THEN tab
    ELSE [id \in DOMAIN tab |->
             IF id = raw_measurement_ids[1]
             THEN [tab[id] EXCEPT !.cleaned_id = cleaned_id]
             ELSE tab[id]]

\* an UPDATE without its WHERE clause
UpdateEveryRaw(tab, raw_measurement_ids, cleaned_id) ==
    IF raw_measurement_ids = <<>> THEN tab
    ELSE [id \in DOMAIN tab |-> [tab[id] EXCEPT !.cleaned_id = cleaned_id]]

\* an UPDATE that links the rows it finds unlinked and unlinks the others
UpdateToggles(tab, raw_measurement_ids, cleaned_id) ==
    IF raw_measurement_ids = <<>> THEN tab
    ELSE [id \in DOMAIN tab |->
             IF id \in Range(raw_measurement_ids)
             THEN [tab[id] EXCEPT !.cleaned_id =
                      IF tab[id].cleaned_id = NULL THEN cleaned_id ELSE NULL]
             ELSE tab[id]]

\* UPDATE raw_measurements SET cleaned_id = .. WHERE measurement_id IN (..)
\* (server.py 908-929): the raw table after the statement
_update_raw_measurements_with_cleaned_id(tab, raw_measurement_ids, cleaned_id) ==
    IF raw_measurement_ids = <<>> THEN tab
    ELSE [id \in DOMAIN tab |->
             IF id \in Range(raw_measurement_ids)
             THEN [tab[id] EXCEPT !.cleaned_id = cleaned_id]
             ELSE tab[id]]

\* lines 1027-1034 of the linking loop: the ids handed to the UPDATE
IdsToLink(cleaned_measurement) ==
    SelectSeq(cleaned_measurement._source_raw_ids, LAMBDA rid : rid # NULL)

\* a table without the rows of flight f (ON DELETE CASCADE, server.py 128 and 159)
CascadeDelete(tab, f) ==
    [id \in {i \in DOMAIN tab : tab[i].flight_id # f} |-> tab[id]]

\* a SET NULL that reaches every raw row left in the table
SetNullEveryRef(tab, gone) ==
    [id \in DOMAIN tab |-> [tab[id] EXCEPT !.cleaned_id = NULL]]

\* raw_measurements.cleaned_id ... ON DELETE SET NULL (server.py 179): the raw
\* table once the cleaned rows with keys in gone are deleted
SetNullRefs(tab, gone) ==
    [id \in DOMAIN tab |->
        IF tab[id].cleaned_id \in gone THEN [tab[id] EXCEPT !.cleaned_id = NULL]
        ELSE tab[id]]

(***************************************************************************)
(* The uploads the clients send.  A file is a sequence of row names; the   *)
(* text of a row is CsvRow(name).                                          *)
(***************************************************************************)
\* a spectrum of n bins, zero but for magnitude m1 at bin p1 and m2 at bin p2
Spectrum(n, p1, m1, p2, m2) ==
    [i \in 1..n |-> IF i = p1 + 1 THEN m1 ELSE IF i = p2 + 1 THEN m2 ELSE 0]

\* Spectrum with a third non-zero bin, magnitude m3 at bin p3
SpectrumWithTail(n, p1, m1, p2, m2, p3, m3) ==
    [i \in 1..n |-> IF i = p3 + 1 THEN m3 ELSE Spectrum(n, p1, m1, p2, m2)[i]]

FftText(list) == [i \in 1..Len(list) |-> Num(list[i])]

\* the four leading fields: timestamp, longitude, latitude, temperature
Meta(ts, lon, lat, temp) == <<Time(ts), Num(lon), Num(lat), Num(temp)>>

CsvRow(name) ==
    CASE name = "good_a" -> Meta(10, 45, 75, 12) \o FftText(Spectrum(N, 20, 120, 40, 60))
      [] name = "good_b" -> Meta(5, 45, 75, 24) \o FftText(Spectrum(N, 10, 48, 20, 24))
      [] name = "good_c" -> Meta(20, 46, 75, 12) \o FftText(Spectrum(N, 20, 120, 40, 60))
      [] name = "reject" -> Meta(30, 45, 75, 12) \o FftText(Spectrum(N, 20, 60, 40, 120))
      [] name = "short" -> Meta(40, 45, 75, 12) \o FftText(Spectrum(10, 2, 120, 6, 60))
      [] name = "no_fft" -> Meta(50, 45, 75, 12)
      [] name = "dropped" -> Meta(60, 47, 75, 12) \o <<Junk, Blank>>
                                 \o FftText(Spectrum(N - 2, 18, 120, 38, 60))
      [] name = "tail" -> Meta(15, 45, 75, 12)
                              \o FftText(SpectrumWithTail(120, 20, 120, 40, 24, 100, 24))
      [] name = "brief" -> Meta(25, 45, 75, 12) \o FftText(Spectrum(60, 20, 120, 40, 60))
      [] name = "faint" -> Meta(30, 45, 75, 12) \o FftText(Spectrum(60, 20, 60, 40, 120))
      [] name = "empty" -> <<>>
      [] name = "few" -> <<Time(70), Num(45), Num(75)>>
      [] name = "bad_ts" -> <<Junk, Num(45), Num(75), Num(12)>>
                                 \o FftText(Spectrum(N, 20, 120, 40, 60))
      [] name = "bad_lon" -> <<Time(80), Junk, Num(75), Num(12)>>
                                 \o FftText(Spectrum(N, 20, 120, 40, 60))
      [] name = "bad_lat" -> <<Time(80), Num(45), Blank, Num(12)>>
                                 \o FftText(Spectrum(N, 20, 120, 40, 60))
      [] name = "bad_temp" -> <<Time(80), Num(45), Num(75), Junk>>
                                 \o FftText(Spectrum(N, 20, 120, 40, 60))

\* rows of the uploads of Spec
CoreRows == {"good_a", "good_b", "reject", "short"}

\* rows of the uploads of SpecParse
ParseRowNames ==
    {"good_a", "good_b", "good_c", "reject", "short", "no_fft", "dropped", "empty", "few",
     "bad_ts", "bad_lon", "bad_lat", "bad_temp"}

\* the rows of the uploads that deletions run beside
DeleteRows == {"good_a", "reject"}

FilesOf(names) == UNION {[1..n -> names] : n \in 0..MaxRows}

FileRows(file) == [i \in DOMAIN file |-> CsvRow(file[i])]

(***************************************************************************)
(* State.                                                                  *)
(***************************************************************************)
VARIABLES
    flights,                \* table flights: the set of flight_id
    raw_measurements,       \* table raw_measurements
    cleaned_measurements,   \* table cleaned_measurements
    flights_seq,            \* last value of the SERIAL flight_id
    raw_seq,                \* last value of the SERIAL measurement_id
    cleaned_seq,            \* last value of the SERIAL cleaned_id
    waiting,                \* flight_id of the create_flight coroutines suspended at await file.read()
    pc,                     \* where the coroutine running on the event loop is
    flight_id,              \* its flight_id
    csvfile,                \* its uploaded file
    water_measurements,     \* parsed_measurements = water_measurements
    raw_measurement_ids,
    validated_measurements,
    combined_measurements,
    cleaned_ids,
    linked,                 \* iterations done of the linking loop
    responses,              \* flight_id -> "created" | "error": what create_flight answered
    uploaded_rows,          \* CSV rows sent so far (bounds the model)
    seen_cleaned,           \* last answer of GET /cleaned_measurements
    seen_raw,               \* last answer of GET /raw_measurements
    fft_vec,                \* the magnitude vector handed to a function called on its own
    arg,                    \* its other argument: a scale factor, a peak index or
                            \* a list of measurements
    result,                 \* what the function returned, None before the call
    serial_lines,           \* the lines get_adc_data has read since it was called
    adc                     \* get_adc_data: where it is, its locals, what it returned

store == <<flights, raw_measurements, cleaned_measurements>>

seqs == <<flights_seq, raw_seq, cleaned_seq>>

locals ==
    <<flight_id, csvfile, water_measurements, raw_measurement_ids,
      validated_measurements, combined_measurements, cleaned_ids, linked>>

seen == <<seen_cleaned, seen_raw>>

\* a signal-processing function called on its own, outside an upload
probe == <<fft_vec, arg, result>>

\* the radar wrapper of the board (ops_serial.py)
radar == <<serial_lines, adc>>

vars == <<store, seqs, waiting, pc, locals, responses, uploaded_rows, seen, probe, radar>>

(***************************************************************************)
(* OPS241B.get_adc_data (ops_serial.py 127-139).  A line read from the     *)
(* port is [k, ok, v]: k = "I" for a line that starts with {"I":, k = "Q"  *)
(* for one that starts with {"Q":, k = "other" for any other line (the     *)
(* empty line of a read that timed out, an FFT line); ok says whether      *)
(* json.loads accepts the line, v is the value under its key.  A local     *)
(* that is not bound is <<>>, a bound one <<v>>.                           *)
(***************************************************************************)
\* most lines read in one call
MaxReads == 4

AdcLines ==
    [k : {"I", "Q"}, ok : {TRUE}, v : 1..2]
        \cup [k : {"I", "Q"}, ok : {FALSE}, v : {0}]
        \cup [k : {"other"}, ok : {TRUE}, v : {0}]

\* what a call returned: nothing yet, None, the pair, or the exception it raised
AdcReturned(kind, I, Q) == [kind |-> kind, I |-> I, Q |-> Q]

AdcIdle == [pc |-> "idle", I_data |-> <<>>, Q_data |-> <<>>,
            ret |-> AdcReturned("running", 0, 0)]

\* lines 137-138: both locals are bound, the pair is returned
ReturnIfBoth(a) ==
    IF a.I_data # <<>> /\ a.Q_data # <<>>
    THEN [a EXCEPT !.pc = "done", !.ret = AdcReturned("pair", a.I_data[1], a.Q_data[1])]
    ELSE a

\* json.loads raises
AdcRaises(a) == [a EXCEPT !.pc = "done", !.ret = AdcReturned("JSONDecodeError", 0, 0)]

\* a loop body that keeps the first I line it read
AfterLineKeepsFirstI(a, line) ==
    IF line.k = "I"
    THEN IF ~line.ok THEN AdcRaises(a)
         ELSE IF a.I_data # <<>> THEN ReturnIfBoth(a)
         ELSE ReturnIfBoth([a EXCEPT !.I_data = <<line.v>>])
    ELSE IF line.k = "Q" /\ a.I_data # <<>>
    THEN IF ~line.ok THEN AdcRaises(a)
         ELSE ReturnIfBoth([a EXCEPT !.Q_data = <<line.v>>])
    ELSE ReturnIfBoth(a)

\* lines 133-138: one iteration of the loop on the line read
AfterLine(a, line) ==
    IF line.k = "I"
    THEN IF ~line.ok THEN AdcRaises(a)
         ELSE ReturnIfBoth([a EXCEPT !.I_data = <<line.v>>])
    ELSE IF line.k = "Q" /\ a.I_data # <<>>
    THEN IF ~line.ok THEN AdcRaises(a)
         ELSE ReturnIfBoth([a EXCEPT !.Q_data = <<line.v>>])
    ELSE ReturnIfBoth(a)

EmptyTable == [id \in {} |-> 0]

InitServer ==
    /\ flights = {}
    /\ raw_measurements = EmptyTable
    /\ cleaned_measurements = EmptyTable
    /\ flights_seq = 0
    /\ raw_seq = 0
    /\ cleaned_seq = 0
    /\ waiting = {}
    /\ pc = "idle"
    /\ flight_id = NULL
    /\ csvfile = <<>>
    /\ water_measurements = <<>>
    /\ raw_measurement_ids = <<>>
    /\ validated_measurements = <<>>
    /\ combined_measurements = <<>>
    /\ cleaned_ids = <<>>
    /\ linked = 0
    /\ responses = EmptyTable
    /\ uploaded_rows = 0
    /\ seen_cleaned = {}
    /\ seen_raw = {}
    /\ serial_lines = <<>>
    /\ adc = AdcIdle

\* the server as started, no function under call
Init ==
    /\ InitServer
    /\ fft_vec = Sparse(<<>>)
    /\ arg = 0
    /\ result = None

\* the coroutine ends: its locals are gone
ResetLocals ==
    /\ flight_id' = NULL
    /\ csvfile' = <<>>
    /\ water_measurements' = <<>>
    /\ raw_measurement_ids' = <<>>
    /\ validated_measurements' = <<>>
    /\ combined_measurements' = <<>>
    /\ cleaned_ids' = <<>>
    /\ linked' = 0

(***************************************************************************)
(* create_flight (server.py 1056-1111) with process_and_clean_csv          *)
(* (932-1050) inlined at its await.                                        *)
(***************************************************************************)
\* lines 1073-1090 and 953-956: INSERT INTO flights, then the coroutine suspends
\* at await file.read().  (A failed INSERT leaves flight_id None: the handler
\* answers 500 and changes nothing.)
CreateFlight(max_flights) ==
    /\ pc = "idle"
    /\ flights_seq < max_flights
    /\ waiting' = waiting \cup {flights_seq + 1}
    /\ flights_seq' = flights_seq + 1
    /\ flights' = flights \cup {flights_seq + 1}
    /\ UNCHANGED <<radar, probe, raw_measurements, cleaned_measurements, raw_seq, cleaned_seq,
                   pc, locals, responses, uploaded_rows, seen>>

\* lines 957-977: the coroutine resumes with the bytes of the upload, writes the
\* file, reads and parses it
ParseCsv(names) ==
    /\ pc = "idle"
    /\ \E f \in waiting, file \in FilesOf(names) :
          /\ uploaded_rows + Len(file) <= MaxTotalRows
          /\ uploaded_rows' = uploaded_rows + Len(file)
          /\ waiting' = waiting \ {f}
          /\ flight_id' = f
          /\ csvfile' = file
          /\ water_measurements' = ParseRows(FileRows(file), f)
          /\ pc' = IF water_measurements' = <<>> THEN "except" ELSE "insert_raw"
    /\ UNCHANGED <<radar, probe, store, seqs, raw_measurement_ids, validated_measurements,
                   combined_measurements, cleaned_ids, linked, responses, seen>>

\* _insert_raw_measurements_with_ids (715-757): one INSERT of its loop; the row
\* references flights(flight_id), so the flight must still exist
InsertRaw ==
    /\ pc = "insert_raw"
    /\ flight_id \in flights
    /\ LET k == Len(raw_measurement_ids) + 1
       IN  /\ raw_seq' = raw_seq + 1
           /\ raw_measurements' =
                  InsertRawRow(raw_measurements, raw_seq + 1, water_measurements[k])
           /\ raw_measurement_ids' = Append(raw_measurement_ids, raw_seq + 1)
           /\ pc' = IF k = Len(water_measurements) THEN "assign_ids" ELSE "insert_raw"
    /\ UNCHANGED <<radar, probe, flights, cleaned_measurements, flights_seq, cleaned_seq, waiting,
                   flight_id, csvfile, water_measurements, validated_measurements,
                   combined_measurements, cleaned_ids, linked, responses,
                   uploaded_rows, seen>>

\* a statement of the upload raises (psycopg2.Error: the connection, or the
\* foreign key when the flight was deleted meanwhile); nothing is caught before
\* create_flight's except
StoreError ==
    /\ pc \in {"insert_raw", "insert_cleaned", "link"}
    /\ pc' = "except"
    /\ UNCHANGED <<radar, probe, store, seqs, waiting, locals, responses, uploaded_rows, seen>>

\* a pipeline that goes on to validation without handing out the ids
AssignNoIds ==
    /\ pc = "assign_ids"
    /\ pc' = "validate"
    /\ UNCHANGED <<radar, probe, store, seqs, waiting, flight_id, csvfile, water_measurements,
                   raw_measurement_ids, validated_measurements, combined_measurements,
                   cleaned_ids, linked, responses, uploaded_rows, seen>>

\* lines 995-996
AssignIds ==
    /\ pc = "assign_ids"
    /\ water_measurements' =
           [i \in DOMAIN water_measurements |->
               [water_measurements[i] EXCEPT !._raw_measurement_id = raw_measurement_ids[i]]]
    /\ pc' = "validate"
    /\ UNCHANGED <<radar, probe, store, seqs, waiting, flight_id, csvfile, raw_measurement_ids,
                   validated_measurements, combined_measurements, cleaned_ids, linked,
                   responses, uploaded_rows, seen>>

\* lines 1002-1006
Validate ==
    /\ pc = "validate"
    /\ LET r == _process_and_validate_measurements(water_measurements)
       IN  /\ validated_measurements' = r.out
           /\ pc' = IF r.exc # "" \/ r.out = <<>> THEN "except" ELSE "combine"
    /\ UNCHANGED <<radar, probe, store, seqs, waiting, flight_id, csvfile, water_measurements,
                   raw_measurement_ids, combined_measurements, cleaned_ids, linked,
                   responses, uploaded_rows, seen>>

\* lines 1010-1014
Combine ==
    /\ pc = "combine"
    /\ LET r == _combine_same_coordinates(validated_measurements)
       IN  /\ combined_measurements' = r.out
           /\ pc' = IF r.exc # "" \/ r.out = <<>> THEN "except" ELSE "insert_cleaned"
    /\ UNCHANGED <<radar, probe, store, seqs, waiting, flight_id, csvfile, water_measurements,
                   raw_measurement_ids, validated_measurements, cleaned_ids, linked,
                   responses, uploaded_rows, seen>>

\* _insert_cleaned_measurements (861-905): one INSERT of its loop
InsertCleaned ==
    /\ pc = "insert_cleaned"
    /\ flight_id \in flights
    /\ LET k == Len(cleaned_ids) + 1
       IN  /\ cleaned_seq' = cleaned_seq + 1
           /\ cleaned_measurements' =
                  InsertCleanedRow(cleaned_measurements, cleaned_seq + 1,
                                   combined_measurements[k])
           /\ cleaned_ids' = Append(cleaned_ids, cleaned_seq + 1)
           /\ pc' = IF k = Len(combined_measurements) THEN "link" ELSE "insert_cleaned"
    /\ UNCHANGED <<radar, probe, flights, raw_measurements, flights_seq, raw_seq, waiting,
                   flight_id, csvfile, water_measurements, raw_measurement_ids,
                   validated_measurements, combined_measurements, linked, responses,
                   uploaded_rows, seen>>

\* lines 1022-1040: one iteration of the linking loop
Link ==
    /\ pc = "link"
    /\ LET i == linked + 1
       IN  /\ raw_measurements' =
                  _update_raw_measurements_with_cleaned_id(
                      raw_measurements, IdsToLink(combined_measurements[i]), cleaned_ids[i])
           /\ linked' = i
           /\ pc' = IF i = Len(combined_measurements) THEN "return" ELSE "link"
    /\ UNCHANGED <<radar, probe, flights, cleaned_measurements, seqs, waiting, flight_id, csvfile,
                   water_measurements, raw_measurement_ids, validated_measurements,
                   combined_measurements, cleaned_ids, responses, uploaded_rows, seen>>

\* lines 1092-1097: process_and_clean_csv has returned, create_flight answers
Return ==
    /\ pc = "return"
    /\ responses' = responses @@ (flight_id :> "created")
    /\ pc' = "idle"
    /\ ResetLocals
    /\ UNCHANGED <<radar, probe, store, seqs, waiting, uploaded_rows, seen>>

\* DELETE FROM flights WHERE flight_id = f, with the cascades of the schema
DeleteFlightRows(f) ==
    /\ flights' = flights \ {f}
    /\ cleaned_measurements' = CascadeDelete(cleaned_measurements, f)
    /\ raw_measurements' =
           SetNullRefs(CascadeDelete(raw_measurements, f),
                       {c \in DOMAIN cleaned_measurements :
                           cleaned_measurements[c].flight_id = f})

\* lines 1098-1111: the compensating DELETE succeeds, then HTTP 500
CleanupDelete ==
    /\ pc = "except"
    /\ DeleteFlightRows(flight_id)
    /\ responses' = responses @@ (flight_id :> "error")
    /\ pc' = "idle"
    /\ ResetLocals
    /\ UNCHANGED <<radar, probe, seqs, waiting, uploaded_rows, seen>>

\* lines 1102-1106: the compensating DELETE raises, "except Exception: pass",
\* then HTTP 500
CleanupFails ==
    /\ pc = "except"
    /\ responses' = responses @@ (flight_id :> "error")
    /\ pc' = "idle"
    /\ ResetLocals
    /\ UNCHANGED <<radar, probe, store, seqs, waiting, uploaded_rows, seen>>

\* delete_flight (server.py 1153-1168), on a worker thread
DeleteFlight ==
    /\ \E f \in flights : DeleteFlightRows(f)
    /\ UNCHANGED <<radar, probe, seqs, waiting, pc, locals, responses, uploaded_rows, seen>>

\* get_cleaned_measurements without filter (server.py 1280-1356), on a worker thread
GetCleanedMeasurements ==
    /\ seen_cleaned' =
           {[cleaned_id |-> c,
             flight_id |-> cleaned_measurements[c].flight_id,
             thickness |-> cleaned_measurements[c].thickness,
             quality_score |-> cleaned_measurements[c].quality_score,
             raw_count |-> Cardinality({r \in DOMAIN raw_measurements :
                                           raw_measurements[r].cleaned_id = c})]
            : c \in DOMAIN cleaned_measurements}
    /\ UNCHANGED <<radar, probe, store, seqs, waiting, pc, locals, responses, uploaded_rows, seen_raw>>

\* get_raw_measurements without filter (server.py 1222-1277), on a worker thread
GetRawMeasurements ==
    /\ seen_raw' =
           {[measurement_id |-> r,
             flight_id |-> raw_measurements[r].flight_id,
             cleaned_id |-> raw_measurements[r].cleaned_id]
            : r \in DOMAIN raw_measurements}
    /\ UNCHANGED <<radar, probe, store, seqs, waiting, pc, locals, responses, uploaded_rows, seen_cleaned>>

Upload(names) ==
    \/ ParseCsv(names)
    \/ InsertRaw
    \/ AssignIds
    \/ Validate
    \/ Combine
    \/ InsertCleaned
    \/ Link
    \/ Return
    \/ StoreError
    \/ CleanupDelete
    \/ CleanupFails

\* uploads of CoreRows, deletions and store errors
Next ==
    \/ CreateFlight(MaxFlights)
    \/ Upload(CoreRows)
    \/ DeleteFlight

Spec == Init /\ [][Next]_vars

\* one upload of ParseRowNames
NextParse ==
    \/ CreateFlight(1)
    \/ Upload(ParseRowNames)

SpecParse == Init /\ [][NextParse]_vars

\* one upload of CoreRows with the two readers running beside it
NextReader ==
    \/ CreateFlight(1)
    \/ Upload(CoreRows)
    \/ GetCleanedMeasurements
    \/ GetRawMeasurements

SpecReader == Init /\ [][NextReader]_vars

\* uploads for TwoFlights flights, one after the other, and deletions at any time
\* (the deletion runs on a worker thread, beside the event loop)
NextDelete ==
    \/ CreateFlight(TwoFlights)
    \/ Upload(DeleteRows)
    \/ DeleteFlight

SpecDelete == Init /\ [][NextDelete]_vars

(***************************************************************************)
(* _process_fft_to_thickness called on its own (server.py 760-823), on a   *)
(* vector and on the same vector scaled.                                   *)
(***************************************************************************)
\* magnitudes of the peaks of the vectors tried
ProbeMagnitudes == {0, 3, 12, 96, 1536}

\* the level of the bins that are not peaks: 0, or below zero (float() reads a
\* negative number as well as any other)
ProbeFloors == {0, -12}

\* scale factors; a vector is c times another as often as the other is 1/c
\* times it, so whole factors stand for their inverses too
ProbeFactors == {2, 10}

\* a vector of N bins at level floor, with m1 at bin p1, m2 at bin p2, and m3 at
\* bin p3 when m3 is not 0
ProbeSpectrum(p1, m1, p2, m2, p3, m3, floor) ==
    [i \in 1..N |-> IF i = p1 + 1 THEN m1
                    ELSE IF i = p2 + 1 THEN m2
                    ELSE IF i = p3 + 1 /\ m3 # 0 THEN m3
                    ELSE floor]

\* the vectors tried: first peak below or in the window, second next to the
\* first, two bins from it, further, or beyond the window; a third peak or none
ProbeSpectraOn(floors) ==
    {ProbeSpectrum(p1, m1, p2, m2, 45, m3, floor) :
        p1 \in {5, 20}, m1 \in ProbeMagnitudes, p2 \in {21, 22, 40, 60},
        m2 \in ProbeMagnitudes, m3 \in {0, 192}, floor \in floors}

ProbeSpectra == ProbeSpectraOn(ProbeFloors)

\* c * v
Scale(list, c) == [i \in DOMAIN list |-> c * list[i]]

InitEstimator ==
    /\ InitServer
    /\ fft_vec \in {Sparse(v) : v \in ProbeSpectra}
    /\ arg \in ProbeFactors
    /\ result = None

\* what one call returns, with the peak bins it selected (line 797) and their
\* magnitudes (lines 805-806)
EstimatorRun(fft_data, peaks) ==
    [est |-> _process_fft_to_thickness(fft_data),
     peaks |-> peaks,
     magnitudes |-> [i \in DOMAIN peaks |-> fft_data[peaks[i] + 1]]]

\* the estimator is called on fft_vec and on arg * fft_vec
ProcessFft ==
    /\ result = None
    /\ result' = [fn |-> "_process_fft_to_thickness",
                  plain |-> EstimatorRun(Dense(fft_vec), WindowPeaks(Dense(fft_vec))),
                  scaled |-> EstimatorRun(Scale(Dense(fft_vec), arg),
                                          WindowPeaks(Scale(Dense(fft_vec), arg)))]
    /\ UNCHANGED <<radar, store, seqs, waiting, pc, locals, responses, uploaded_rows,
                   seen,                   fft_vec, arg>>

NextEstimator == ProcessFft

SpecEstimator == InitEstimator /\ [][NextEstimator]_vars

(***************************************************************************)
(* refine_peak_parabolic_log called on its own, on every vector of up to   *)
(* MaxVec magnitudes and every index from below the vector to beyond it.   *)
(***************************************************************************)
\* 32 and 33 are two magnitudes with one logarithm
RefineMagnitudes == {0, 1, 4, 32, 33}

RefineVectors == UNION {[1..n -> RefineMagnitudes] : n \in 0..MaxVec}

InitRefine ==
    /\ InitServer
    /\ fft_vec \in {Sparse(v) : v \in RefineVectors}
    /\ arg \in (-2)..(fft_vec.n + 1)
    /\ result = None

RefinePeak ==
    /\ result = None
    /\ result' = refine_peak_parabolic_log(Dense(fft_vec), arg)
    /\ UNCHANGED <<radar, store, seqs, waiting, pc, locals, responses, uploaded_rows,
                   seen,                   fft_vec, arg>>

NextRefine == RefinePeak

SpecRefine == InitRefine /\ [][NextRefine]_vars

(***************************************************************************)
(* analyze_fft called on its own, on a vector and on the same vector       *)
(* scaled.  A vector is N bins of zeros with up to two reflections on it;  *)
(* a reflection is a shape scaled by a power of two q.                     *)
(***************************************************************************)
\* the samples of a reflection of each shape, for q = 1, and the place of its
\* highest sample: a peak with equal shoulders, one with unequal shoulders, a
\* peak that rises from zero in one bin, a single bin
ShapeSamples(shape) ==
    CASE shape = "wide" -> <<2, 3, 4, 3, 2>>
      [] shape = "skew" -> <<2, 3, 4, 2, 2>>
      [] shape = "cliff" -> <<4, 3, 3, 2>>
      [] shape = "spike" -> <<4>>

ShapeTop(shape) ==
    CASE shape = "wide" -> 3
      [] shape = "skew" -> 3
      [] shape = "cliff" -> 1
      [] shape = "spike" -> 1

\* the sample reflection b = [bin, q, shape] puts at bin i, 0 off the reflection
ReflectionAt(b, i) ==
    LET k == i - b.bin + ShapeTop(b.shape)
    IN  IF k \in DOMAIN ShapeSamples(b.shape) THEN b.q * ShapeSamples(b.shape)[k] ELSE 0

AnalyzerSpectrum(b1, b2) == [i \in 1..N |-> ReflectionAt(b1, i - 1) + ReflectionAt(b2, i - 1)]

AnalyzerShapes == {"wide", "skew", "cliff", "spike"}

\* first reflections: below the window, inside it, beyond 1.3 m with room in the
\* window for a second one 35 bins on (bin 70) and without (bin 80)
FirstReflections ==
    [bin : {10, 30, 70, 80}, q : {4, 16}, shape : AnalyzerShapes]

\* second reflections, by their distance from the first: too near, in the band
\* of plausible thickness, too far; q = 0 is no second reflection
SecondReflections(b1) ==
    {[bin |-> b1.bin + 35, q |-> 0, shape |-> "spike"]}
        \cup [bin : {b1.bin + 20, b1.bin + 35, b1.bin + 50}, q : {1, 16, 64},
              shape : AnalyzerShapes]

AnalyzerSpectra ==
    UNION {{AnalyzerSpectrum(b1, b2) : b2 \in SecondReflections(b1)} :
              b1 \in FirstReflections}

AnalyzerFactors == {2, 8}

InitAnalyzer ==
    /\ InitServer
    /\ fft_vec \in {Sparse(v) : v \in AnalyzerSpectra}
    /\ arg \in AnalyzerFactors
    /\ result = None

\* analyze_fft is called on fft_vec and on arg * fft_vec
AnalyzeFft ==
    /\ result = None
    /\ result' = [fn |-> "analyze_fft",
                  plain |-> analyze_fft(Dense(fft_vec)),
                  scaled |-> analyze_fft(Scale(Dense(fft_vec), arg))]
    /\ UNCHANGED <<radar, store, seqs, waiting, pc, locals, responses, uploaded_rows,
                   seen,                   fft_vec, arg>>

NextAnalyzer == AnalyzeFft

SpecAnalyzer == InitAnalyzer /\ [][NextAnalyzer]_vars

(***************************************************************************)
(* Both estimators called on a vector and on the same vector scaled: the   *)
(* vectors of SpecAnalyzer and the vectors of SpecEstimator that have no   *)
(* negative sample.                                                        *)
(***************************************************************************)
InitScale ==
    /\ InitServer
    /\ fft_vec \in {Sparse(v) : v \in AnalyzerSpectra \cup ProbeSpectraOn({0})}
    /\ arg \in AnalyzerFactors
    /\ result = None

NextScale ==
    \/ ProcessFft
    \/ AnalyzeFft

SpecScale == InitScale /\ [][NextScale]_vars

(***************************************************************************)
(* The three peak searches called on one vector, each with the candidates  *)
(* that reach its spacing rule and the peaks the rule keeps, as 0-based    *)
(* bins.                                                                   *)
(***************************************************************************)
\* two reflections, the second 2, 8, 12 or 20 bins after the first, lower, equal
\* or higher
DetectorSpectra ==
    {AnalyzerSpectrum(b1, b2) :
        b1 \in [bin : {30}, q : {4, 16}, shape : {"wide", "spike"}],
        b2 \in [bin : {32, 38, 42, 50}, q : {1, 4, 64}, shape : {"wide", "spike"}]}

InitDetector ==
    /\ InitServer
    /\ fft_vec \in {Sparse(v) : v \in DetectorSpectra}
    /\ arg = 0
    /\ result = None

\* find_peaks of analyze_fft (thickness_analyzer.py 134-141): the peaks the
\* height filter left and those the distance filter keeps of them
AnalyzerSpacing(x, candidates) ==
    [candidates |-> {p - 1 : p \in candidates},
     kept |-> {p - 1 : p \in SelectByDistance(x, candidates, candidates, 16)}]

\* find_peaks of _process_fft_to_thickness (server.py 789-793): distance is its
\* first filter
ServerSpacing(window, candidates) ==
    [candidates |-> {valid_indices[k] : k \in candidates},
     kept |-> {valid_indices[k] :
                  k \in SelectByDistance(window, candidates, candidates, 2)}]

\* the sweep of _analyze_fft (temp_server.py 214-229)
TempSpacing(candidates) ==
    [candidates |-> Range(candidates),
     kept |-> Range(TempSweep(candidates, -999, <<>>))]

\* the vector the peak searches run on
DetectorInput == Dense(fft_vec)

DetectPeaks ==
    /\ result = None
    /\ result' =
           [analyzer |-> AnalyzerSpacing(DetectorInput,
                             HeightFiltered(DetectorInput, SetMax(Range(DetectorInput)))),
            server |-> ServerSpacing(
                           [k \in 1..Len(valid_indices) |->
                               DetectorInput[valid_indices[k] + 1]],
                           LocalMaxima([k \in 1..Len(valid_indices) |->
                               DetectorInput[valid_indices[k] + 1]])),
            temp |-> TempSpacing(
                         TempCandidates(DetectorInput, TempValidIndices,
                             SetMax({DetectorInput[TempValidIndices[k] + 1] :
                                        k \in DOMAIN TempValidIndices}),
                             SetMax(Range(DetectorInput)))),
            analysis |-> analyze_fft(DetectorInput)]
    /\ UNCHANGED <<radar, store, seqs, waiting, pc, locals, responses, uploaded_rows,
                   seen,                   fft_vec, arg>>

NextDetector == DetectPeaks

SpecDetector == InitDetector /\ [][NextDetector]_vars

(***************************************************************************)
(* _combine_same_coordinates called on its own (server.py 508-578), on     *)
(* lists of at most MaxGroup measurements.  A measurement is a parsed row  *)
(* at one of the coordinates of CombineCoordinates, with the thickness and *)
(* quality score the estimator gives its FFT (None for a row the estimator *)
(* rejects) and its position in the list as raw id.                        *)
(***************************************************************************)
MaxGroup == 3

CombineRows == {"faint", "tail", "brief"}

CombineCoordinates == {<<45, 75>>, <<46, 75>>, <<45, 76>>}

\* the measurement of a row once the estimator ran on it (server.py 842-853)
Estimated(m, r) == [m EXCEPT !.thickness = r.thickness, !.quality_score = r.quality_score]

CombineMember(name, coordinates) ==
    Estimated([_parse_csv_row(CsvRow(name), 1).m EXCEPT !.coordinates = coordinates],
              _process_fft_to_thickness(Dense(_parse_csv_row(CsvRow(name), 1).m.fft_data)))

\* the rows of CombineRows at every coordinate, and good_b, whose thickness is not
\* theirs, at one
CombineMembers ==
    {CombineMember(name, xy) : name \in CombineRows, xy \in CombineCoordinates}
        \cup {CombineMember("good_b", <<45, 75>>)}

\* server.py 995-996: the raw id of a measurement is that of its row
WithRawIds(list) == [i \in DOMAIN list |-> [list[i] EXCEPT !._raw_measurement_id = i]]

CombineInputs == {WithRawIds(list) : list \in UNION {[1..n -> CombineMembers] : n \in 0..MaxGroup}}

InitCombine ==
    /\ InitServer
    /\ fft_vec = Sparse(<<>>)
    /\ arg \in CombineInputs
    /\ result = None

CombineSameCoordinates ==
    /\ result = None
    /\ result' = _combine_same_coordinates(arg)
    /\ UNCHANGED <<radar, store, seqs, waiting, pc, locals, responses, uploaded_rows,
                   seen,                   fft_vec, arg>>

NextCombine == CombineSameCoordinates

SpecCombine == InitCombine /\ [][NextCombine]_vars

(***************************************************************************)
(* get_adc_data running: the call, the iterations of its loop and the end  *)
(* of the loop at the deadline.  The lines the port delivers and the time  *)
(* each read takes are the radar's, so any line of AdcLines may come and   *)
(* the deadline may have passed at any test of the loop condition.         *)
(***************************************************************************)
\* lines 129-130: the call; _drain empties the input buffer, the locals are new
GetAdcData ==
    /\ adc.pc \in {"idle", "done"}
    /\ adc' = [AdcIdle EXCEPT !.pc = "loop"]
    /\ serial_lines' = <<>>
    /\ UNCHANGED <<store, seqs, waiting, pc, locals, responses, uploaded_rows, seen, probe>>

\* lines 131-138: time.time() < end, a line is read and handled
AdcReadLine ==
    /\ adc.pc = "loop"
    /\ Len(serial_lines) < MaxReads
    /\ \E line \in AdcLines :
           /\ serial_lines' = Append(serial_lines, line)
           /\ adc' = AfterLine(adc, line)
    /\ UNCHANGED <<store, seqs, waiting, pc, locals, responses, uploaded_rows, seen, probe>>

\* lines 131 and 139: time.time() < end is false, the function returns None
AdcDeadline ==
    /\ adc.pc = "loop"
    /\ adc' = [adc EXCEPT !.pc = "done", !.ret = AdcReturned("None", 0, 0)]
    /\ UNCHANGED <<store, seqs, waiting, pc, locals, responses, uploaded_rows, seen, probe,
                   serial_lines>>

NextAdc == GetAdcData \/ AdcReadLine \/ AdcDeadline

SpecAdc == Init /\ [][NextAdc]_vars

(***************************************************************************)
(* Properties.  "The upload" is the create_flight coroutine on the event   *)
(* loop; its locals are readable until it answers (pc = "return" is the    *)
(* state in which process_and_clean_csv has returned).                     *)
(***************************************************************************)
\* the provenance list of the i-th cleaned candidate, as a set
SourceRawIds(i) == Range(combined_measurements[i]._source_raw_ids)

\* the stored raw rows that reference cleaned row c
LinkedTo(c) == {r \in DOMAIN raw_measurements : raw_measurements[r].cleaned_id = c}

\* positions of the records of the upload that have their raw id and that the
\* estimator rejects (no exception, no thickness or no quality score)
RejectedRecords ==
    {k \in DOMAIN water_measurements :
        /\ water_measurements[k]._raw_measurement_id # NULL
        /\ LET r == _process_fft_to_thickness(Dense(water_measurements[k].fft_data))
           IN  r.exc = "" /\ (r.thickness = None \/ r.quality_score = None)}

\* the candidates exist: validation and reconciliation are over
Reconciled == pc \in {"insert_cleaned", "link", "return"}

\* C1: when process_and_clean_csv has returned, every stored raw row whose id is
\* in the provenance list of a cleaned record references exactly that cleaned
\* record, and a stored raw row with a NULL cleaned_id is in no provenance list
C1_LinksMatchProvenance ==
    pc = "return" =>
        /\ \A i \in DOMAIN combined_measurements :
              \A rid \in SourceRawIds(i) :
                  rid \in DOMAIN raw_measurements =>
                      raw_measurements[rid].cleaned_id = cleaned_ids[i]
        /\ \A rid \in DOMAIN raw_measurements :
              raw_measurements[rid].cleaned_id = NULL =>
                  \A i \in DOMAIN combined_measurements : rid \notin SourceRawIds(i)

\* C1 witness: an upload has returned with a cleaned record made of two raw
\* rows, both stored and both linked to it
C1_Witness ==
    /\ pc = "return"
    /\ \E i \in DOMAIN combined_measurements :
          /\ Cardinality(SourceRawIds(i)) = 2
          /\ \A rid \in SourceRawIds(i) :
                /\ rid \in DOMAIN raw_measurements
                /\ raw_measurements[rid].cleaned_id = cleaned_ids[i]

\* C2: every cleaned record in an answer of GET /cleaned_measurements came with
\* raw rows linked to it: a reader never sees a cleaned record before its links
C2_ReaderSeesLinkedCleaned ==
    \A c \in seen_cleaned : c.raw_count > 0

\* C3: once create_flight has answered an upload with its error, the store holds
\* no flight row, no raw row and no cleaned row of that flight_id
C3_FailedUploadLeavesNothing ==
    \A f \in DOMAIN responses :
        responses[f] = "error" =>
            /\ f \notin flights
            /\ \A r \in DOMAIN raw_measurements : raw_measurements[r].flight_id # f
            /\ \A c \in DOMAIN cleaned_measurements : cleaned_measurements[c].flight_id # f

C5_CleanedHaveEstimates ==
    /\ \A c \in DOMAIN cleaned_measurements :
          /\ cleaned_measurements[c].thickness # None
          /\ cleaned_measurements[c].quality_score # None
    /\ Reconciled =>
          \A i \in DOMAIN combined_measurements :
              /\ combined_measurements[i].thickness # None
              /\ combined_measurements[i].quality_score # None

\* C5 witness: a batch with a rejected record has had its cleaned rows stored
C5_Witness ==
    /\ pc = "link"
    /\ RejectedRecords # {}
    /\ \E c \in DOMAIN cleaned_measurements :
          cleaned_measurements[c].flight_id = flight_id

\* C6: when process_and_clean_csv has returned, every cleaned record of the upload
\* has a provenance list that is not empty, and if it is stored, a stored raw row
\* references it
C6_CleanedHaveSources ==
    pc = "return" =>
        \A i \in DOMAIN combined_measurements :
            /\ combined_measurements[i]._source_raw_ids # <<>>
            /\ cleaned_ids[i] \in DOMAIN cleaned_measurements => LinkedTo(cleaned_ids[i]) # {}

\* C6 witness: an upload has returned and a stored cleaned record of it is
\* referenced by a stored raw row
C6_Witness ==
    /\ pc = "return"
    /\ \E i \in DOMAIN combined_measurements :
          /\ cleaned_ids[i] \in DOMAIN cleaned_measurements
          /\ LinkedTo(cleaned_ids[i]) # {}

\* C7: while validation and _combine_same_coordinates run, every record of the
\* upload carries the id its INSERT returned, and every id in a provenance list
\* is one of these ids: the id of a raw row of the flight, stored unless the
\* flight was deleted meanwhile
C7_ProvenanceIdsAreStored ==
    /\ pc \in {"validate", "combine"} \cup {"insert_cleaned", "link", "return"} =>
          /\ Len(raw_measurement_ids) = Len(water_measurements)
          /\ \A k \in DOMAIN water_measurements :
                /\ water_measurements[k]._raw_measurement_id # NULL
                /\ water_measurements[k]._raw_measurement_id = raw_measurement_ids[k]
                /\ raw_measurement_ids[k] <= raw_seq
                /\ flight_id \in flights =>
                      /\ raw_measurement_ids[k] \in DOMAIN raw_measurements
                      /\ raw_measurements[raw_measurement_ids[k]].flight_id = flight_id
    /\ Reconciled =>
          \A i \in DOMAIN combined_measurements :
              SourceRawIds(i) \subseteq Range(raw_measurement_ids)

\* C7 witness: the candidates of a two-row upload exist and a provenance id is the
\* key of a stored raw row
C7_Witness ==
    /\ pc = "insert_cleaned"
    /\ Len(water_measurements) = 2
    /\ \E i \in DOMAIN combined_measurements :
          \E rid \in SourceRawIds(i) : rid \in DOMAIN raw_measurements

\* rows of ParseRowNames that _parse_csv_row must refuse: fewer than four fields,
\* or a timestamp, longitude, latitude or temperature that does not parse
MalformedRows == {"few", "bad_ts", "bad_lon", "bad_lat", "bad_temp"}

\* the names of the rows of the file that are neither empty nor malformed
WellFormedRows == SelectSeq(csvfile, LAMBDA name : name \notin MalformedRows \cup {"empty"})

\* C8: a malformed row is skipped and takes no other row with it: the parsed
\* records are the well-formed rows of the file, all of them and in their order,
\* and once the raw INSERTs are done each one is a stored raw row
C8_MalformedRowsSkipped ==
    /\ pc # "idle" =>
          /\ Len(water_measurements) = Len(WellFormedRows)
          /\ \A k \in DOMAIN water_measurements :
                /\ water_measurements[k].timestamp = CsvRow(WellFormedRows[k])[1].v
                /\ water_measurements[k].coordinates =
                       <<CsvRow(WellFormedRows[k])[2].v, CsvRow(WellFormedRows[k])[3].v>>
    /\ pc \in {"assign_ids", "validate", "combine", "insert_cleaned", "link", "return"} =>
          /\ Len(raw_measurement_ids) = Len(WellFormedRows)
          /\ \A k \in DOMAIN raw_measurement_ids :
                /\ raw_measurement_ids[k] \in DOMAIN raw_measurements
                /\ raw_measurements[raw_measurement_ids[k]].timestamp =
                       CsvRow(WellFormedRows[k])[1].v

\* C8 witness: a file whose first row is malformed and whose second row is
\* well-formed has its second row stored
C8_Witness ==
    /\ pc = "assign_ids"
    /\ Len(csvfile) = 2
    /\ csvfile[1] \in MalformedRows
    /\ csvfile[2] \notin MalformedRows \cup {"empty"}
    /\ Len(raw_measurement_ids) = 1
    /\ raw_measurement_ids[1] \in DOMAIN raw_measurements

\* validation is over: the records have their ids and the pipeline is past it
Validated ==
    /\ pc \in {"combine", "insert_cleaned", "link", "return", "except"}
    /\ water_measurements # <<>>
    /\ \A k \in DOMAIN water_measurements : water_measurements[k]._raw_measurement_id # NULL

\* C9: a record whose FFT has not N values is in no provenance list, and it does
\* not keep the other records from being validated: a record the estimator
\* accepts is among the validated ones
C9_WrongLengthRejected ==
    /\ Reconciled =>
          \A k \in DOMAIN water_measurements :
              water_measurements[k].fft_data.n # N =>
                  \A i \in DOMAIN combined_measurements :
                      water_measurements[k]._raw_measurement_id \notin SourceRawIds(i)
    /\ Validated =>
          \A k \in DOMAIN water_measurements :
              LET r == _process_fft_to_thickness(Dense(water_measurements[k].fft_data))
              IN  (r.exc = "" /\ r.thickness # None /\ r.quality_score # None) =>
                      \E j \in DOMAIN validated_measurements :
                          validated_measurements[j]._raw_measurement_id =
                              water_measurements[k]._raw_measurement_id

\* the validated records at coordinate xy, by raw id
ValidatedAt(xy) ==
    {validated_measurements[j]._raw_measurement_id :
        j \in {h \in DOMAIN validated_measurements :
                  validated_measurements[h].coordinates = xy}}

\* C10: the validated records that share one coordinate give exactly one
\* cleaned candidate, and its provenance list is exactly their raw ids
C10_OneCandidatePerCoordinate ==
    Reconciled =>
        \A j \in DOMAIN validated_measurements :
            LET xy == validated_measurements[j].coordinates
                mine == {i \in DOMAIN combined_measurements :
                            SourceRawIds(i) \cap ValidatedAt(xy) # {}}
            IN  /\ Cardinality(mine) = 1
                /\ \A i \in mine :
                      /\ SourceRawIds(i) = ValidatedAt(xy)
                      /\ Len(combined_measurements[i]._source_raw_ids) =
                             Cardinality(ValidatedAt(xy))

\* C10 witness: two validated records share a coordinate and their one candidate
\* lists both raw ids
C10_Witness ==
    /\ Reconciled
    /\ \E i \in DOMAIN combined_measurements :
          /\ Cardinality(SourceRawIds(i)) = 2
          /\ \E j \in DOMAIN validated_measurements :
                SourceRawIds(i) = ValidatedAt(validated_measurements[j].coordinates)

\* C11: a validated record that is alone at its coordinate comes out of
\* _combine_same_coordinates as it went in, with the thickness and quality score
\* validation computed for it (those the estimator gives for its FFT) and a
\* provenance list holding exactly its own raw id
C11_SingletonPassesThrough ==
    Reconciled =>
        \A j \in DOMAIN validated_measurements :
            Cardinality(ValidatedAt(validated_measurements[j].coordinates)) = 1 =>
                LET v == validated_measurements[j]
                    r == _process_fft_to_thickness(Dense(v.fft_data))
                IN  /\ \E i \in DOMAIN combined_measurements :
                          combined_measurements[i] =
                              [v EXCEPT !._source_raw_ids = <<v._raw_measurement_id>>]
                    /\ \A i \in DOMAIN combined_measurements :
                          v._raw_measurement_id \in SourceRawIds(i) =>
                              /\ combined_measurements[i]._source_raw_ids =
                                     <<v._raw_measurement_id>>
                              /\ combined_measurements[i].thickness = r.thickness
                              /\ combined_measurements[i].quality_score = r.quality_score

\* C11 witness: two validated records at two coordinates, each with a candidate
\* of its own
C11_Witness ==
    /\ Reconciled
    /\ Len(validated_measurements) = 2
    /\ Len(combined_measurements) = 2
    /\ \A i \in DOMAIN combined_measurements :
          /\ Len(combined_measurements[i]._source_raw_ids) = 1
          /\ combined_measurements[i].thickness # None

\* the validated records whose raw ids are in the provenance list of candidate i
Members(i) ==
    {j \in DOMAIN validated_measurements :
        validated_measurements[j]._raw_measurement_id \in SourceRawIds(i)}

\* C12: a candidate made of two validated records with the same FFT vector has
\* the thickness each of the two got on its own, and a provenance list of
\* exactly their two raw ids
C12_IdenticalPairKeepsThickness ==
    Reconciled =>
        \A j, h \in DOMAIN validated_measurements :
            (/\ j < h
             /\ validated_measurements[j].coordinates = validated_measurements[h].coordinates
             /\ validated_measurements[j].fft_data = validated_measurements[h].fft_data
             /\ Cardinality(ValidatedAt(validated_measurements[j].coordinates)) = 2) =>
                \E i \in DOMAIN combined_measurements :
                    /\ combined_measurements[i]._source_raw_ids =
                           <<validated_measurements[j]._raw_measurement_id,
                             validated_measurements[h]._raw_measurement_id>>
                    /\ combined_measurements[i].thickness = validated_measurements[j].thickness
                    /\ combined_measurements[i].thickness = validated_measurements[h].thickness
                    /\ \A g \in DOMAIN combined_measurements :
                           g # i => Members(g) \cap {j, h} = {}

\* C12 witness: the upload held the same valid row twice and its one candidate
\* lists both raw ids
C12_Witness ==
    /\ Reconciled
    /\ Len(validated_measurements) = 2
    /\ validated_measurements[1].fft_data = validated_measurements[2].fft_data
    /\ Len(combined_measurements) = 1
    /\ Len(combined_measurements[1]._source_raw_ids) = 2

\* the rows of table tab that belong to flight f
RowsOf(tab, f) == {id \in DOMAIN tab : tab[id].flight_id = f}

\* C17: a step that removes flight f from flights removes every raw and cleaned
\* record of f, and leaves every other flight, and every record of another
\* flight with all its fields (the raw-to-cleaned link among them), as it was
C17_DeleteRemovesOnlyTheFlight ==
    [][\A f \in flights :
          f \notin flights' =>
              /\ RowsOf(raw_measurements', f) = {}
              /\ RowsOf(cleaned_measurements', f) = {}
              /\ flights' = flights \ {f}
              /\ DOMAIN raw_measurements' = DOMAIN raw_measurements \ RowsOf(raw_measurements, f)
              /\ DOMAIN cleaned_measurements' =
                     DOMAIN cleaned_measurements \ RowsOf(cleaned_measurements, f)
              /\ \A r \in DOMAIN raw_measurements' : raw_measurements'[r] = raw_measurements[r]
              /\ \A c \in DOMAIN cleaned_measurements' :
                     cleaned_measurements'[c] = cleaned_measurements[c]]_vars

\* C17 witness: flight 1 was uploaded and deleted, its rows are gone, and the
\* rows of flight 2 are stored with their link
C17_Witness ==
    /\ flights = {2}
    /\ 1 \in DOMAIN responses
    /\ responses[1] = "created"
    /\ raw_seq = 2
    /\ DOMAIN raw_measurements = {2}
    /\ raw_measurements[2].cleaned_id = 2
    /\ DOMAIN cleaned_measurements = {2}

\* the raw table after iterations i.. of the linking loop (server.py 1022-1040)
\* are run on table tab
RECURSIVE LinkFrom(_, _)
LinkFrom(tab, i) ==
    IF i > Len(combined_measurements) THEN tab
    ELSE LinkFrom(_update_raw_measurements_with_cleaned_id(
                      tab, IdsToLink(combined_measurements[i]), cleaned_ids[i]),
                  i + 1)

\* C18: the UPDATE of the next linking iteration, applied twice with the same
\* ids, leaves the raw table as after the first application and changes no row
\* outside the id list; and once the loop is done, running the whole loop again
\* changes nothing
C18_LinkingIdempotent ==
    /\ pc = "link" =>
          LET ids == IdsToLink(combined_measurements[linked + 1])
              c == cleaned_ids[linked + 1]
              once == _update_raw_measurements_with_cleaned_id(raw_measurements, ids, c)
          IN  /\ _update_raw_measurements_with_cleaned_id(once, ids, c) = once
              /\ DOMAIN once = DOMAIN raw_measurements
              /\ \A r \in DOMAIN raw_measurements \ Range(ids) : once[r] = raw_measurements[r]
    /\ pc = "return" => LinkFrom(raw_measurements, 1) = raw_measurements

\* C18 witness: the loop has linked a raw row and left another one, outside the
\* id lists, unlinked
C18_Witness ==
    /\ pc = "return"
    /\ linked >= 1
    /\ \E r \in DOMAIN raw_measurements : raw_measurements[r].cleaned_id # NULL
    /\ \E r \in DOMAIN raw_measurements : raw_measurements[r].cleaned_id = NULL

\* the samples of v next to the first two bins of peaks (0-based bins)
PeakNeighbours(v, peaks) ==
    {v[b + d] : b \in {peaks[i] : i \in DOMAIN peaks \cap {1, 2}}, d \in {0, 2}}

Clamp01(q) == IF RatLeq(q, Rat(0, 1)) THEN Rat(0, 1) ELSE RatMin(q, Rat(1, 1))

\* C14: the quality score of an accepted estimate is magnitude1 / magnitude2 / 10
\* clamped to [0, 1], and 1 when magnitude2 is 0
C14_QualityScore ==
    (result # None /\ result.plain.est.thickness # None) =>
        LET magnitude1 == result.plain.magnitudes[1]
            magnitude2 == result.plain.magnitudes[2]
        IN  result.plain.est.quality_score =
                IF magnitude2 = 0 THEN Rat(1, 1)
                ELSE Clamp01(RatDivInt(Rat(magnitude1, magnitude2), 10))

\* C14 for second peaks above zero
C14_QualityScorePositive ==
    (result # None /\ result.plain.est.thickness # None
        /\ result.plain.magnitudes[2] > 0) =>
        result.plain.est.quality_score =
            Clamp01(RatDivInt(Rat(result.plain.magnitudes[1],
                                  result.plain.magnitudes[2]), 10))

\* C15: with two candidates in the window, the estimator rejects exactly when
\* the magnitude of the second is greater than the magnitude of the first
C15_RejectsIffSecondExceeds ==
    (result # None /\ Len(result.plain.peaks) = 2) =>
        ((result.plain.est.thickness = None)
            <=> (result.plain.magnitudes[2] > result.plain.magnitudes[1]))

\* C19: refine_peak_parabolic_log with k <= 0 or k >= N - 1 returns k and reads
\* nothing; with an interior k it reads indices k - 1, k, k + 1 only; it never
\* reads outside 0..N-1 and never raises
C19_RefineStaysInside ==
    result # None =>
        /\ result.exc = ""
        /\ result.reads \subseteq 0..(fft_vec.n - 1)
        /\ (arg <= 0 \/ arg >= fft_vec.n - 1) =>
              (result.value = Rat(arg, 1) /\ result.reads = {})
        /\ (arg > 0 /\ arg < fft_vec.n - 1) => result.reads = {arg - 1, arg, arg + 1}

\* C19 witness: the call with the last index of a vector whose last element is
\* higher than the one before it
C19_Witness ==
    /\ result # None
    /\ fft_vec.n = MaxVec
    /\ arg = fft_vec.n - 1
    /\ Dense(fft_vec)[arg + 1] > Dense(fft_vec)[arg]
    /\ result.value = Rat(arg, 1)

\* C20: for an interior k with fft_data[k - 1] = fft_data[k + 1] the function
\* returns k, the denominator being zero (three equal values) or not
C20_SymmetricGivesK ==
    (/\ result # None
     /\ arg > 0
     /\ arg < fft_vec.n - 1
     /\ Dense(fft_vec)[arg] = Dense(fft_vec)[arg + 2]) =>
        result.value = Rat(arg, 1)

\* C20 witness: a peak between two equal lower neighbours, denominator not zero
C20_Witness ==
    /\ result # None
    /\ arg > 0
    /\ arg < fft_vec.n - 1
    /\ Dense(fft_vec)[arg] = Dense(fft_vec)[arg + 2]
    /\ Dense(fft_vec)[arg + 1] > Dense(fft_vec)[arg]
    /\ result.value = Rat(arg, 1)

\* the two error texts analyze_fft has for fewer than two peaks
InsufficientPeaks == {"No peaks found in FFT data", "Only one peak found"}

\* C16: an analysis without estimate carries a rejection reason, that of the
\* first failing rule in the order insufficient peaks, second exceeds first,
\* first peak too far, implausible thickness; fewer than two peaks in the window
\* always give the insufficient-peaks reason
C16_FirstFailingRuleReported ==
    (result # None /\ result.plain.thickness = None) =>
        LET r == result.plain
            v == Dense(fft_vec)
        IN  /\ r.error # ""
            /\ Len(r.peaks) < 2 => r.error \in InsufficientPeaks
            /\ Len(r.peaks) >= 2 =>
                  r.error =
                      IF v[r.peaks[2] + 1] > v[r.peaks[1] + 1]
                      THEN "Second peak stronger than first peak; invalid measurement"
                      ELSE IF ~RatLeq(RANGE_AXIS(r.peaks[1]), Rat(13, 10))
                      THEN "First peak beyond 130cm; invalid measurement"
                      ELSE "Unrealistic thickness calculated"

\* in search d with minimum spacing s, of two candidates closer than s the
\* earlier is kept and the later is not
EarlierKept(d, s) ==
    \A p, q \in d.candidates : (p < q /\ q - p < s) => (p \in d.kept /\ q \notin d.kept)

\* C21: in each of the three peak searches, of two candidates closer than the
\* minimum spacing (16 bins in analyze_fft, 2 bins in the two server searches)
\* the lower-range one is kept and the other discarded, whatever their magnitudes
C21_EarlierCandidateKept ==
    result # None =>
        /\ EarlierKept(result.analyzer, 16)
        /\ EarlierKept(result.server, 2)
        /\ EarlierKept(result.temp, 2)
\* the raw ids (positions) of the measurements of list at coordinate xy
IdsAt(list, xy) == {i \in DOMAIN list : list[i].coordinates = xy}

\* the candidates of the result whose provenance is the set ids
CandidatesOf(out, ids) == {k \in DOMAIN out : Range(out[k]._source_raw_ids) = ids}

\* the FFT vectors of the members ids of list, in list order
MemberVectors(list, ids) ==
    [k \in 1..Cardinality(ids) |-> Dense(list[SortedSeq(ids)[k]].fft_data)]

\* the mean of the thickness (field = 1) or quality score (field = 2) of the
\* members with in given
MemberMean(list, given, field) ==
    RatDivInt(RatSum([k \in 1..Cardinality(given) |->
                         IF field = 1 THEN list[SortedSeq(given)[k]].thickness
                         ELSE list[SortedSeq(given)[k]].quality_score]),
              Cardinality(given))

\* what the group ids must have produced: r is the estimate of its merged FFT,
\* given its members that have a thickness, cands its candidates in out
RerunThenMeans(list, out, ids, r, given, cands) ==
    IF Cardinality(ids) = 1 THEN Cardinality(cands) = 1
    ELSE IF r.thickness # None /\ r.quality_score # None
    THEN /\ Cardinality(cands) = 1
         /\ \A k \in cands : /\ out[k].thickness = r.thickness
                              /\ out[k].quality_score = r.quality_score
    ELSE IF given # {}
    THEN /\ Cardinality(cands) = 1
         /\ \A k \in cands : /\ out[k].thickness = MemberMean(list, given, 1)
                              /\ out[k].quality_score = MemberMean(list, given, 2)
    ELSE cands = {}

RerunThenMeansAt(list, out, ids) ==
    RerunThenMeans(list, out, ids,
                   _process_fft_to_thickness(combined_fft(MemberVectors(list, ids))),
                   {i \in ids : list[i].thickness # None},
                   CandidatesOf(out, ids))

\* C22: a group of two or more measurements at one coordinate yields the estimate
\* of its merged FFT when that estimate is valid, else the means of its members'
\* thickness and quality score, and nothing only when no member has a thickness;
\* the other groups of the list still yield their candidates.
C22_RerunThenMeansThenDrop ==
    result # None =>
        /\ result.exc = ""
        /\ \A xy \in CombineCoordinates :
               IdsAt(arg, xy) # {} => RerunThenMeansAt(arg, result.out, IdsAt(arg, xy))

\* a group whose merged FFT the estimator rejects and that yields the mean of the
\* one member that has a thickness, beside a member without one
C22_Witness ==
    /\ result # None
    /\ \E xy \in CombineCoordinates :
           /\ Cardinality(IdsAt(arg, xy)) >= 2
           /\ \E i, j \in IdsAt(arg, xy) :
                  arg[i].thickness # None /\ arg[j].thickness = None
           /\ _process_fft_to_thickness(
                  combined_fft(MemberVectors(arg, IdsAt(arg, xy)))).thickness = None
           /\ CandidatesOf(result.out, IdsAt(arg, xy)) # {}

\* the members among ids whose FFT vector has an element at index idx (1-based)
PresentAt(list, ids, idx) == {i \in ids : idx <= list[i].fft_data.n}

\* merged is the mean of the member vectors, each counted where it has an element
MeanOfPresent(list, ids, merged) ==
    /\ Len(merged) = SetMax({list[i].fft_data.n : i \in ids})
    /\ \A idx \in DOMAIN merged :
           merged[idx] * Cardinality(PresentAt(list, ids, idx)) =
               SeqSum([k \in 1..Cardinality(PresentAt(list, ids, idx)) |->
                   Dense(list[SortedSeq(PresentAt(list, ids, idx))[k]].fft_data)[idx]])

\* C23: the merged FFT of a group has the length of its longest member vector, its
\* value at an index is the mean over exactly the member vectors that have an
\* element there, and the merged timestamp is the earliest member timestamp.
C23_MergedFftIsMeanOfPresent ==
    result # None =>
        \A xy \in CombineCoordinates :
            Cardinality(IdsAt(arg, xy)) >= 2 =>
                \A k \in CandidatesOf(result.out, IdsAt(arg, xy)) :
                    /\ MeanOfPresent(arg, IdsAt(arg, xy), Dense(result.out[k].fft_data))
                    /\ \E i \in IdsAt(arg, xy) :
                           result.out[k].timestamp = arg[i].timestamp
                    /\ \A i \in IdsAt(arg, xy) :
                           result.out[k].timestamp <= arg[i].timestamp

\* a group of a 60-value and a 120-value vector whose merged FFT keeps, beyond
\* index 60, the value of the longer vector, and whose first member is not the
\* earliest
C23_Witness ==
    /\ result # None
    /\ \E xy \in CombineCoordinates :
           \E k \in CandidatesOf(result.out, IdsAt(arg, xy)) :
               \E i, j \in IdsAt(arg, xy) :
                   /\ i < j
                   /\ arg[i].fft_data.n < arg[j].fft_data.n
                   /\ arg[j].timestamp < arg[i].timestamp
                   /\ result.out[k].timestamp = arg[j].timestamp
                   /\ \E idx \in (arg[i].fft_data.n + 1)..arg[j].fft_data.n :
                          /\ Dense(arg[j].fft_data)[idx] # 0
                          /\ Dense(result.out[k].fft_data)[idx] = Dense(arg[j].fft_data)[idx]

\* the coordinate pairs that occur in list
CoordinatePairs(list) == {list[i].coordinates : i \in DOMAIN list}

\* C24: two records are grouped exactly when their longitude and their latitude
\* are both equal: the provenance of every candidate is the set of all records at
\* one coordinate pair, no pair has two candidates, and the groups are as many as
\* the distinct coordinate pairs (a pair without candidate is a dropped group).
C24_GroupsAreCoordinatePairs ==
    result # None =>
        /\ \A k \in DOMAIN result.out :
               \E xy \in CoordinatePairs(arg) :
                   Range(result.out[k]._source_raw_ids) = IdsAt(arg, xy)
        /\ \A xy \in CoordinatePairs(arg) :
               /\ Cardinality(CandidatesOf(result.out, IdsAt(arg, xy))) <= 1
               /\ CandidatesOf(result.out, IdsAt(arg, xy)) = {} =>
                      /\ Cardinality(IdsAt(arg, xy)) >= 2
                      /\ \A i \in IdsAt(arg, xy) : arg[i].thickness = None
        /\ Len(CoordKeys(arg, {})) = Cardinality(CoordinatePairs(arg))

\* two records at one coordinate pair and a third that differs from them in
\* latitude only: two candidates
C24_Witness ==
    /\ result # None
    /\ Len(arg) = 3
    /\ arg[1].coordinates = arg[3].coordinates
    /\ arg[2].coordinates[1] = arg[1].coordinates[1]
    /\ arg[2].coordinates[2] # arg[1].coordinates[2]
    /\ Len(result.out) = 2
    /\ result.out[1]._source_raw_ids = <<1, 3>>
    /\ result.out[2]._source_raw_ids = <<2>>

\* int(q) of Python for a rational q: truncation towards zero
IntPart(q) == IF q[1] >= 0 THEN q[1] \div q[2] ELSE -((-q[1]) \div q[2])

\* p < q
RatLess(p, q) == ~RatLeq(q, p)

\* k is an interior index of the positive vector v and v[k] exceeds both neighbours
StrictInteriorPeak(v, k) ==
    /\ k > 0
    /\ k < Len(v) - 1
    /\ \A i \in DOMAIN v : v[i] > 0
    /\ v[k + 1] > v[k]
    /\ v[k + 1] > v[k + 2]

\* int(refined) is k - 1 or k and an index of the vector
TruncatesBeside(value, k, n) ==
    /\ IntPart(value) \in {k - 1, k}
    /\ IntPart(value) \in 0..(n - 1)

RatAbs(q) == Rat(Abs(q[1]), q[2])

\* q * c for a rational q and an integer c
RatTimes(q, c) == Rat(q[1] * c, q[2])

\* the distance in cm between the ranges of bins p1 and p2
SpanCm(p1, p2) ==
    RatTimes(RatAbs(RatAdd(RANGE_AXIS(p2), Rat(-RANGE_AXIS(p1)[1], RANGE_AXIS(p1)[2]))), 100)

\* thickness_cm times the refractive index 1.78 (thickness_analyzer.py 56) is the
\* distance between the two refined ranges, each within a bin of its peak's range
RefractedSpan(thickness_cm, p1, p2) ==
    /\ RatLeq(RatAdd(SpanCm(p1, p2), RatTimes(BIN_RANGE, -200)),
              Rat(thickness_cm[1] * 89, thickness_cm[2] * 50))
    /\ RatLeq(Rat(thickness_cm[1] * 89, thickness_cm[2] * 50),
              RatAdd(SpanCm(p1, p2), RatTimes(BIN_RANGE, 200)))

\* C25: an accepted estimate has the thickness |range2 - range1| / refractive
\* index of the refined ranges of its two candidates, and that thickness lies in
\* the band from 30 cm to 50 cm.
C25_RefractedThicknessInBand ==
    (result # None /\ result.plain.est.thickness # None) =>
        /\ RefractedSpan(result.plain.est.thickness,
                         result.plain.peaks[1], result.plain.peaks[2])
        /\ RatLeq(Rat(30, 1), result.plain.est.thickness)
        /\ RatLeq(result.plain.est.thickness, Rat(50, 1))

\* the first candidate of analysis a lies beyond 1.3 m
FirstBeyondStandoff(a) ==
    Len(a.peaks) >= 1 /\ RatLess(Rat(13, 10), RANGE_AXIS(a.peaks[1]))

\* C26: no estimate whenever the range of the first candidate exceeds 1.3 m,
\* whatever the other candidates are.
C26_NoEstimateBeyondStandoff ==
    result # None =>
        /\ FirstBeyondStandoff(result.plain) => result.plain.thickness = None
        /\ FirstBeyondStandoff(result.scaled) => result.scaled.thickness = None

\* a first candidate beyond 1.3 m with a weaker second candidate at a distance
\* inside the band of plausible thickness: the range of the first alone rejects
C26_Witness ==
    /\ result # None
    /\ FirstBeyondStandoff(result.plain)
    /\ Len(result.plain.peaks) = 2
    /\ Dense(fft_vec)[result.plain.peaks[2] + 1] < Dense(fft_vec)[result.plain.peaks[1] + 1]
    /\ ThicknessFromRefined(result.plain.peaks,
           refine_peak_parabolic_log(Dense(fft_vec), result.plain.peaks[1]).value,
           refine_peak_parabolic_log(Dense(fft_vec), result.plain.peaks[2]).value).error = ""
    /\ result.plain.error = "First peak beyond 130cm; invalid measurement"
    /\ result.plain.thickness = None

\* the raw ids of the records that passed validation
ValidatedIds ==
    {validated_measurements[j]._raw_measurement_id : j \in DOMAIN validated_measurements}

\* C28: when process_and_clean_csv has returned, no raw id is in the provenance
\* list of two cleaned records (nor twice in one), and the provenance lists
\* together hold exactly the raw ids of the records that passed validation.
C28_ProvenancePartitionsValidated ==
    pc = "return" =>
        /\ \A i, j \in DOMAIN combined_measurements :
               i # j => SourceRawIds(i) \cap SourceRawIds(j) = {}
        /\ \A i \in DOMAIN combined_measurements :
               Cardinality(SourceRawIds(i)) = Len(combined_measurements[i]._source_raw_ids)
        /\ UNION {SourceRawIds(i) : i \in DOMAIN combined_measurements} = ValidatedIds

\* an upload of two validated records at one coordinate whose merged FFT the
\* estimator rejects has returned: one cleaned record, made of both
C28_Witness ==
    /\ pc = "return"
    /\ Len(validated_measurements) = 2
    /\ validated_measurements[1].coordinates = validated_measurements[2].coordinates
    /\ _process_fft_to_thickness(
           combined_fft([j \in 1..2 |-> Dense(validated_measurements[j].fft_data)])).thickness
               = None
    /\ Len(combined_measurements) = 1
    /\ SourceRawIds(1) = ValidatedIds
    /\ Cardinality(ValidatedIds) = 2

\* the store holds the flight row f, a raw row and a cleaned row of flight f
StoredFlight(fl, raw, cleaned, f) ==
    /\ f \in fl
    /\ \E r \in DOMAIN raw : raw[r].flight_id = f
    /\ \E c \in DOMAIN cleaned : cleaned[c].flight_id = f

\* the step in which create_flight answers with its success
ReportsSuccess == pc = "return" /\ pc' = "idle"

\* the upload parsed a row, validated a record and kept a group
SomethingSurvived ==
    /\ water_measurements # <<>>
    /\ validated_measurements # <<>>
    /\ combined_measurements # <<>>

\* C29 as stated: whenever create_flight reports success the store contains the
\* flight row, a raw record and a cleaned record of the flight, and an upload in
\* which no row parsed, no record passed validation or no group survived is not
\* reported as success.
C29_SuccessMeansStored ==
    [][ReportsSuccess =>
          /\ responses'[flight_id] = "created"
          /\ SomethingSurvived
          /\ StoredFlight(flights', raw_measurements', cleaned_measurements', flight_id)]_vars

\* C29: an upload reported as success parsed a row, validated a record and kept
\* a group; the store then contains the flight row, a raw record and a cleaned
\* record of the flight unless a client deleted the flight while the upload ran.
C29_SuccessMeansStoredUnlessDeleted ==
    [][ReportsSuccess =>
          /\ responses'[flight_id] = "created"
          /\ SomethingSurvived
          /\ flight_id \in flights' =>
                 StoredFlight(flights', raw_measurements', cleaned_measurements', flight_id)]_vars

\* an upload has been answered with success and its flight is stored with raw
\* and cleaned rows
C29_Witness ==
    \E f \in DOMAIN responses :
        /\ responses[f] = "created"
        /\ StoredFlight(flights, raw_measurements, cleaned_measurements, f)

\* the I lines read before line j of the call
IBefore(j) == {i \in 1..(j - 1) : serial_lines[i].k = "I"}

\* C30: get_adc_data returns a pair only when the last line it read is a Q line
\* with an I line before it, the I of the pair being that of the most recent I
\* line before that Q and the Q that of the Q line; a Q line with no I line
\* before it is discarded, the call going on with Q unbound; and a call that
\* reaches the deadline has read no Q line after an I line and returns None.
C30_PairOnlyAfterIThenQ ==
    /\ adc.ret.kind = "pair" =>
          /\ serial_lines # <<>>
          /\ serial_lines[Len(serial_lines)].k = "Q"
          /\ IBefore(Len(serial_lines)) # {}
          /\ adc.ret.I = serial_lines[SetMax(IBefore(Len(serial_lines)))].v
          /\ adc.ret.Q = serial_lines[Len(serial_lines)].v
    /\ (/\ serial_lines # <<>>
        /\ serial_lines[Len(serial_lines)].k = "Q"
        /\ IBefore(Len(serial_lines)) = {}) =>
          /\ adc.Q_data = <<>>
          /\ adc.ret.kind \in {"running", "None"}
    /\ adc.ret.kind = "None" =>
          /\ adc.pc = "done"
          /\ \A j \in DOMAIN serial_lines : serial_lines[j].k = "Q" => IBefore(j) = {}
    /\ (adc.pc = "done" /\ adc.ret.kind \notin {"pair", "JSONDecodeError"}) =>
          adc.ret.kind = "None"

\* a call that read a Q line, two different I lines and a Q line, and returned
\* the second I with the second Q
C30_Witness ==
    /\ adc.ret.kind = "pair"
    /\ Len(serial_lines) = 4
    /\ serial_lines[1].k = "Q"
    /\ serial_lines[2].k = "I"
    /\ serial_lines[3].k = "I"
    /\ serial_lines[2].v # serial_lines[3].v
    /\ serial_lines[1].v # serial_lines[4].v
    /\ adc.ret.I = serial_lines[3].v
    /\ adc.ret.Q = serial_lines[4].v

=============================================================================
